---- MODULE Spec2Model ----
(***************************************************************************)
(* autokattis: the paged, concurrent fetch of the capabilities problems,   *)
(* achievements and stats (OpenKattis / NUSKattis and the older Kattis     *)
(* class), the best-submission reducer of stats, and the memoizing         *)
(* wrappers (list_to_tuple, lru_cache) around the capabilities.            *)
(***************************************************************************)
EXTENDS Integers, Sequences, FiniteSets, TLC

(***************************************************************************)
(* Bounds of the model.                                                    *)
(***************************************************************************)
\* worker counts 1..MaxWorkers are explored (the worker count is configurable)
MaxWorkers == 2
\* the first MaxContentPages pages of an endpoint hold any page of Pages;
\* every later page holds the expected table with no row
MaxContentPages == 3
\* number of calls with a collection/empty argument a session makes
MaxCalls == 2
\* problem ids 1..MaxProblemIds exist; problem is called with up to that many
MaxProblemIds == 2
\* the login page holds up to MaxTokens numeric value attributes
MaxTokens == 2
\* the landing page holds up to MaxLinks <a> elements
MaxLinks == 3
\* a code-to-name map holds up to MaxEntries entries
MaxEntries == 2
\* fuzz.ratio takes the values 0..MaxScore
MaxScore == 1
\* a difficulty cell holds up to MaxRuns numeric and MaxRuns alphabetic runs
MaxRuns == 2
\* the numbers of a difficulty cell are 1..MaxDifficulty
MaxDifficulty == 2
\* a table holds up to MaxRows rows
MaxRows == 3
\* the text of a runtime or length cell holds up to MaxText characters
MaxText == 3
\* the landing page holds up to MaxHomeTables tables of up to MaxHomeRows rows
MaxHomeTables == 2
MaxHomeRows == 2
\* the landing page lists up to MaxCourses courses with ids 1..MaxCourses, a
\* course holds offerings named 1..MaxOfferings
MaxCourses == 2
MaxOfferings == 2
\* an 'Assignments' section holds up to MaxItems list items
MaxItems == 5
\* a capability returns up to MaxRecords records of values 1..MaxValue, and
\* the caller mutates the Result up to MaxMutations times
MaxRecords == 2
MaxValue == 2
MaxMutations == 2

(***************************************************************************)
(* Program constants.                                                      *)
(***************************************************************************)
\* functools.lru_cache applied bare (@lru_cache) keeps maxsize = 128
LruMaxSize == 128
\* runtime a '>'-marked runtime counts as in the reducer's key
ExceededRuntime == 1000000000
\* SubmissionsColumn
CONTEST_PROBLEM_NAME == 3
VIEW_DETAILS == 8
\* ProblemsColumn
DIFFICULTY_CATEGORY == 7
\* SolvedProblemsColumn
ACHIEVEMENTS == 3
\* UserRanklistColumn, CountryRanklistColumn
SCORE == 4
\* DefaultRanklistColumn.SCORE
DEFAULT_SCORE == 2

(***************************************************************************)
(* Strings of the language database.  A language string is a code, a       *)
(* display name, the empty string or a string the database does not know.  *)
(***************************************************************************)
NumLanguages == 2
Code(n) == [kind |-> "code", n |-> n]
Name(n) == [kind |-> "name", n |-> n]
Junk(n) == [kind |-> "junk", n |-> n]
EmptyStr == [kind |-> "empty", n |-> 0]
NoLanguage == [kind |-> "None", n |-> 0]

\* GetLanguage passing the string on as it was given
GetLanguageAsGiven(l) == IF l.kind \in {"code", "name"} THEN l ELSE [kind |-> "None", n |-> 0]

\* DatabaseManager.LANGUAGES: every code and every display name maps to the code
InLanguages(l) == l.kind \in {"code", "name"} /\ l.n \in 1..NumLanguages
GetLanguage(l) == IF InLanguages(l) THEN Code(l.n) ELSE NoLanguage

(***************************************************************************)
(* Pages and rows served by the site.                                      *)
(***************************************************************************)
NoScore == -1

\* a table row: ntd <td> cells, text: some cell is populated, anchor: the
\* cells that link somewhere hold their <a>, ach: the achievements cell
\* holds a badge; the rest are the cell contents
Row(ntd, text, anchor, ach, pid, lang, p, f, score, rt, over, sub) ==
    [ntd |-> ntd, text |-> text, anchor |-> anchor, ach |-> ach, pid |-> pid,
     name |-> pid, lang |-> lang, tc_pass |-> p, tc_full |-> f, score |-> score,
     runtime |-> rt, over |-> over, sub |-> sub]

R1    == Row(9, TRUE,  TRUE,  TRUE,  1, Name(1), 1, 1,  NoScore, 2, FALSE, 1)
R1b   == Row(9, TRUE,  TRUE,  TRUE,  1, Name(1), 1, 1,  NoScore, 2, FALSE, 2)
R1c   == Row(9, TRUE,  TRUE,  FALSE, 1, Name(2), 5, 10, NoScore, 1, FALSE, 3)
R2    == Row(9, TRUE,  TRUE,  TRUE,  2, Name(2), 1, 1,  NoScore, 1, FALSE, 4)
RHead == Row(0, FALSE, FALSE, FALSE, 0, EmptyStr, 0, 0, NoScore, 0, FALSE, 0)
RBlank == Row(9, FALSE, FALSE, FALSE, 0, EmptyStr, 0, 0, NoScore, 0, FALSE, 0)
RNoLink == Row(9, TRUE, FALSE, FALSE, 2, Name(2), 1, 1, NoScore, 1, FALSE, 5)

\* container: the enclosing div/section is there; table: the table (with
\* its tbody) is there
Table(rows) == [container |-> TRUE, table |-> TRUE, rows |-> rows]
NoTable == [container |-> TRUE, table |-> FALSE, rows |-> <<>>]
NoContainer == [container |-> FALSE, table |-> FALSE, rows |-> <<>>]
EmptyPage == Table(<<>>)

Pages ==
    {NoContainer, NoTable, EmptyPage, Table(<<RHead, R1, R2>>), Table(<<R1b, R1c>>),
     Table(<<RBlank, RNoLink>>)}

(***************************************************************************)
(* Capabilities.                                                           *)
(***************************************************************************)
Caps == {"problems", "problems_low", "problems_v2", "achievements", "stats",
         "kattis_stats"}
StatsCaps == {"stats", "kattis_stats"}

\* params['page'] at the start of the fetch
StartPage(cap) == IF cap \in {"problems", "achievements"} THEN 1 ELSE 0

\* the paged requests go through new_get, except Kattis.stats (self.get)
UsesNewGet(cap) == cap # "kattis_stats"

VARIABLES
    server,       \* page offset -> page held by the endpoint
    max_workers,  \* get_max_workers() / MAX_WORKERS
    cache,        \* lru_cache of the capability: <<[key, val]>>, least recent first
    stack,        \* the calls in progress, outermost first: [cap, key]
    pc,           \* where the call in progress is
    result,       \* the value the last return statement produced
    err,          \* the exception being raised: [kind, page]
    languages,    \* stats: what is left of the loop over {*languages}
    language,     \* stats: the language of the current fetch
    ret,          \* stats: records of the languages done
    page,         \* params['page']
    has_content,
    futures,      \* indices (into tasks) of the futures of the round
    tasks,        \* every task submitted to the executor in this fetch
    data,         \* accumulated records, in insertion order
    pid_set,
    nextFiller,   \* session: number of unknown-language calls made so far
    callsLeft,    \* session: calls still to be made from SessionCalls
    history,      \* session: [key, val] of the first completed call of each key
    issued,       \* requests submitted since the caller's call began
    requests,     \* login / problem: the requests sent so far, [kind, arg]
    problem_pages,\* problem: problem id -> what the site holds for it
    problem_ids,  \* problem: what is left of the loop over {*problem_ids}
    columns,      \* problem: what the local variable columns is bound to
    tokens,       \* login: the matches of value="(\d+)" in the login page
    post_url,     \* login: response.url of the credential POST
    homepage,     \* login: href of every <a> of the landing page, split at '/'
    username,     \* login: the value login returns
    input,        \* arguments of the helper function under evaluation
    output        \* what the helper function returned or raised

vars == <<server, max_workers, cache, stack, pc, result, err, languages, language,
          ret, page, has_content, futures, tasks, data, pid_set, nextFiller,
          callsLeft, history, issued, requests, problem_pages, problem_ids, tokens,
          post_url, homepage, username, input, output, columns>>

fetchVars == <<languages, language, ret, page, has_content, futures, tasks, data,
               pid_set, issued>>
sessionVars == <<nextFiller, callsLeft, history>>
loginVars == <<tokens, post_url, homepage, username>>
problemVars == <<problem_pages, problem_ids, columns>>
helperVars == <<input, output>>
extVars == <<requests, loginVars, problemVars, helperVars>>

cap == stack[Len(stack)].cap
key == stack[Len(stack)].key

NoErr == [kind |-> "none", page |-> -1]

(***************************************************************************)
(* The response to a request.                                              *)
(***************************************************************************)
RECURSIVE FilterRows(_, _)
FilterRows(rows, code) ==
    IF rows = <<>> THEN <<>>
    ELSE LET r == Head(rows)
             rest == FilterRows(Tail(rows), code)
         IN  IF r.text /\ GetLanguage(r.lang) # code THEN rest ELSE <<r>> \o rest

\* the page the site holds at page number p of the endpoint of capability c
PageAt(c, p) ==
    IF p - StartPage(c) \in DOMAIN server THEN server[p - StartPage(c)] ELSE EmptyPage

\* the site applies the language filter of the request (status=AC&language=code);
\* a request without the parameter is not filtered
Respond(c, filter, p) ==
    LET pg == PageAt(c, p)
    IN  IF c \in StatsCaps /\ filter.kind = "code"
        THEN [pg EXCEPT !.rows = FilterRows(pg.rows, filter)]
        ELSE pg

(***************************************************************************)
(* Records.                                                                *)
(***************************************************************************)
\* {'name', 'id', 'link'} (the other fields of a full-detail or achievements
\* record are cell texts of the same row)
ProblemRecord(row) == [id |-> row.pid, name |-> row.name]

\* new_data of stats, with its 'id'
SubmissionRecord(row) ==
    [id |-> row.pid, name |-> row.name, timestamp |-> row.sub, runtime |-> row.runtime,
     over |-> row.over, language |-> row.lang, test_case_passed |-> row.tc_pass,
     test_case_full |-> row.tc_full, score |-> row.score, link |-> row.sub]

RECURSIVE IndexOfId(_, _)
\* position of the record with this id in a sequence of records, 0 if none
IndexOfId(s, id) ==
    IF s = <<>> THEN 0
    ELSE IF s[Len(s)].id = id THEN Len(s)
    ELSE IndexOfId(SubSeq(s, 1, Len(s) - 1), id)

RECURSIVE InsertById(_, _)
InsertById(s, r) ==
    IF s = <<>> THEN <<r>>
    ELSE IF s[Len(s)].id <= r.id THEN Append(s, r)
    ELSE Append(InsertById(SubSeq(s, 1, Len(s) - 1), r), s[Len(s)])

RECURSIVE SortById(_)
\* sorted(data, key=lambda x: x['id']): a stable sort
SortById(s) ==
    IF s = <<>> THEN <<>> ELSE InsertById(SortById(SubSeq(s, 1, Len(s) - 1)), s[Len(s)])

(***************************************************************************)
(* The reducer of stats:                                                   *)
(*   max(data[pid], new_data, key=lambda x: (x.get('score', tc_pass/tc_full),*)
(*       x['test_case_passed'], -float(runtime or 1e9)))                   *)
(* tc_pass and tc_full are the variables of the row being processed.       *)
(***************************************************************************)
\* first component of the key, as a fraction <<numerator, denominator>>
ScoreKey(x, tc_pass, tc_full) ==
    IF x.score # NoScore THEN <<x.score, 1>> ELSE <<tc_pass, tc_full>>

RuntimeKey(x) == IF x.over THEN ExceededRuntime ELSE x.runtime

\* key(a) < key(b), tuples compared lexicographically
KeyLess(a, b, tc_pass, tc_full) ==
    LET ka == ScoreKey(a, tc_pass, tc_full)
        kb == ScoreKey(b, tc_pass, tc_full)
        l  == ka[1] * kb[2]
        r  == kb[1] * ka[2]
    IN  \/ l < r
        \/ l = r /\ a.test_case_passed < b.test_case_passed
        \/ l = r /\ a.test_case_passed = b.test_case_passed
                 /\ RuntimeKey(a) > RuntimeKey(b)

\* max() returns the first of its arguments that no later one exceeds
Better(old, new) ==
    IF KeyLess(old, new, new.test_case_passed, new.test_case_full) THEN new ELSE old

(***************************************************************************)
(* Processing one response.  acc = [has_content, data, pid_set, err]       *)
(***************************************************************************)
Raise(acc, kind) == [acc EXCEPT !.err = kind]
Content(acc) == [acc EXCEPT !.has_content = TRUE]

\* Seen never finding an id
SeenNever(pid, set) == FALSE

\* if pid not in pid_set
Seen(pid, set) == pid \in set

\* RowProblemsLow appending the record of a new id without pid_set.add(pid)
RowProblemsLowNoAdd(row, acc) ==
    IF row.ntd > 0 /\ row.ntd >= CONTEST_PROBLEM_NAME
    THEN IF row.ntd <= CONTEST_PROBLEM_NAME THEN Raise(Content(acc), "IndexError")
         ELSE IF ~row.anchor THEN Raise(Content(acc), "IndexError")
         ELSE IF Seen(row.pid, acc.pid_set) THEN Content(acc)
         ELSE [Content(acc) EXCEPT !.data = Append(@, ProblemRecord(row))]
    ELSE acc

\* RowProblemsLow with has_content set only for a row whose id is new
RowProblemsLowFlagOnNew(row, acc) ==
    IF row.ntd > 0 /\ row.ntd >= CONTEST_PROBLEM_NAME
    THEN IF row.ntd <= CONTEST_PROBLEM_NAME THEN Raise(acc, "IndexError")
         ELSE IF ~row.anchor THEN Raise(acc, "IndexError")
         ELSE IF Seen(row.pid, acc.pid_set) THEN acc
         ELSE [Content(acc) EXCEPT !.pid_set = @ \cup {row.pid},
                                   !.data = Append(@, ProblemRecord(row))]
    ELSE acc

\* rows of problems, low_detail_mode (and NUSKattis.problems)
RowProblemsLow(row, acc) ==
    IF row.ntd > 0 /\ row.ntd >= CONTEST_PROBLEM_NAME
    THEN IF row.ntd <= CONTEST_PROBLEM_NAME THEN Raise(Content(acc), "IndexError")
         ELSE IF ~row.anchor THEN Raise(Content(acc), "IndexError")
         ELSE IF Seen(row.pid, acc.pid_set) THEN Content(acc)
         ELSE [Content(acc) EXCEPT !.pid_set = @ \cup {row.pid},
                                   !.data = Append(@, ProblemRecord(row))]
    ELSE acc

\* rows of Kattis.problems_v2
RowProblemsV2(row, acc) ==
    IF row.ntd > 0 /\ row.ntd > 2
    THEN IF ~row.anchor THEN Raise(Content(acc), "IndexError")
         ELSE IF Seen(row.pid, acc.pid_set) THEN Content(acc)
         ELSE [Content(acc) EXCEPT !.pid_set = @ \cup {row.pid},
                                   !.data = Append(@, ProblemRecord(row))]
    ELSE acc

\* rows of problems, full detail
RowProblems(row, acc) ==
    IF row.ntd > 0
    THEN IF ~row.anchor THEN Raise(Content(acc), "AttributeError")
         ELSE IF row.ntd <= DIFFICULTY_CATEGORY THEN Raise(Content(acc), "IndexError")
         ELSE [Content(acc) EXCEPT !.data = Append(@, ProblemRecord(row))]
    ELSE acc

\* rows of achievements
RowAchievements(row, acc) ==
    IF row.ntd > 0 /\ row.text
    THEN IF ~row.anchor THEN acc
         ELSE IF row.ntd <= ACHIEVEMENTS THEN Raise(Content(acc), "IndexError")
         ELSE IF ~row.ach THEN Content(acc)
         ELSE [Content(acc) EXCEPT !.data = Append(@, ProblemRecord(row))]
    ELSE acc

\* data[pid] = new_data if pid not in data else max(data[pid], new_data, key=...)
Reduce(acc, new) ==
    LET i == IndexOfId(acc.data, new.id)
    IN  IF i = 0 THEN [acc EXCEPT !.data = Append(@, new)]
        ELSE IF new.test_case_full = 0 THEN Raise(acc, "ZeroDivisionError")
        ELSE [acc EXCEPT !.data[i] = Better(@, new)]

\* rows of stats (OpenKattis and NUSKattis)
RowStats(row, acc) ==
    IF row.ntd > 0 /\ row.text
    THEN IF row.ntd <= CONTEST_PROBLEM_NAME \/ ~row.anchor
         THEN Raise(Content(acc), "IndexError")
         ELSE IF row.ntd <= VIEW_DETAILS THEN Raise(Content(acc), "IndexError")
         ELSE Reduce(Content(acc), SubmissionRecord(row))
    ELSE acc

\* rows of Kattis.stats
RowKattisStats(row, acc) ==
    IF row.ntd > 0 /\ row.text
    THEN IF ~row.anchor THEN Raise(Content(acc), "AttributeError")
         ELSE IF row.ntd <= 2 THEN Raise(Content(acc), "IndexError")
         ELSE Reduce(Content(acc), SubmissionRecord(row))
    ELSE acc

ParseRow(c, row, acc) ==
    CASE c = "problems"     -> RowProblems(row, acc)
      [] c = "problems_low" -> RowProblemsLow(row, acc)
      [] c = "problems_v2"  -> RowProblemsV2(row, acc)
      [] c = "achievements" -> RowAchievements(row, acc)
      [] c = "stats"        -> RowStats(row, acc)
      [] c = "kattis_stats" -> RowKattisStats(row, acc)

RECURSIVE ParseRows(_, _, _)
\* for row in table_content: ... ; an exception ends the loop
ParseRows(c, rows, acc) ==
    IF rows = <<>> \/ acc.err # "none" THEN acc
    ELSE ParseRows(c, Tail(rows), ParseRow(c, Head(rows), acc))

\* the lookup of the table in the response: "rows", "skip" (continue with the
\* next response) or the exception the lookup raises
FindTable(c, pg) ==
    CASE c = "problems" ->
            IF pg.container /\ pg.table THEN "rows" ELSE "skip"
      [] c \in {"problems_low", "problems_v2"} ->
            IF ~pg.container THEN "AttributeError"
            ELSE IF pg.table THEN "rows" ELSE "skip"
      [] OTHER ->
            IF pg.table THEN "rows" ELSE "AttributeError"

\* the body of the loop over as_completed(futures) for one response
ParsePage(c, pg, acc) ==
    LET t == FindTable(c, pg)
    IN  IF t = "rows" THEN ParseRows(c, pg.rows, acc)
        ELSE IF t = "skip" THEN acc
        ELSE Raise(acc, t)

(***************************************************************************)
(* The body of a capability.                                               *)
(***************************************************************************)
Range(s) == {s[i] : i \in DOMAIN s}

\* the orders in which a set can be iterated
Perms(S) ==
    {p \in [1..Cardinality(S) -> S] : \A i, j \in 1..Cardinality(S) : i # j => p[i] # p[j]}

InFlight == {i \in DOMAIN tasks : tasks[i].st = "queued"}

\* entry of problems, achievements, Kattis.problems_v2:
\*   has_content, params, data = True, {'page': start}, []
EnterPaged ==
    /\ pc = "body"
    /\ cap \notin StatsCaps
    /\ has_content' = TRUE
    /\ page' = StartPage(cap)
    /\ data' = <<>>
    /\ pid_set' = {}
    /\ tasks' = <<>>
    /\ futures' = <<>>
    /\ pc' = "while"
    /\ UNCHANGED <<server, max_workers, cache, stack, result, err, languages,
                   language, ret, issued, sessionVars, extVars>>

\* entry of stats: ret = []; a str becomes [languages]; for language in {*languages}
EnterStats ==
    /\ pc = "body"
    /\ cap = "stats"
    /\ key.kind # "none"
    /\ ret' = <<>>
    /\ languages' \in Perms(Range(key.elems))
    /\ pc' = "lang"
    /\ UNCHANGED <<server, max_workers, cache, stack, result, err, language, page,
                   has_content, futures, tasks, data, pid_set, issued, sessionVars, extVars>>

\* entry of Kattis.stats(language): the assert on the language, then the fetch
EnterKattisStats ==
    /\ pc = "body"
    /\ cap = "kattis_stats"
    /\ LET l == key.elems[1]
       IN  IF l # EmptyStr /\ ~InLanguages(l)
           THEN /\ pc' = "raising"
                /\ err' = [kind |-> "AssertionError", page |-> -1]
                /\ UNCHANGED <<language, has_content, page, data, tasks, futures>>
           ELSE /\ pc' = "while"
                /\ language' = l
                /\ has_content' = TRUE
                /\ page' = StartPage(cap)
                /\ data' = <<>>
                /\ tasks' = <<>>
                /\ futures' = <<>>
                /\ err' = err
    /\ ret' = <<>>
    /\ languages' = <<>>
    /\ UNCHANGED <<server, max_workers, cache, stack, result, pid_set, issued,
                   sessionVars, extVars>>

\* stats: a language the database does not know is reported and skipped
SkipLanguage ==
    /\ pc = "lang"
    /\ languages # <<>>
    /\ Head(languages) # EmptyStr /\ ~InLanguages(Head(languages))
    /\ languages' = Tail(languages)
    /\ UNCHANGED <<server, max_workers, cache, stack, pc, result, err, language, ret,
                   page, has_content, futures, tasks, data, pid_set, issued,
                   sessionVars, extVars>>

\* stats: has_content = True; params = {'page': 0, 'status': 'AC',
\*        'language': get_languages().get(language)}; data = {}
NextLanguage ==
    /\ pc = "lang"
    /\ languages # <<>>
    /\ Head(languages) = EmptyStr \/ InLanguages(Head(languages))
    /\ languages' = Tail(languages)
    /\ language' = GetLanguage(Head(languages))
    /\ has_content' = TRUE
    /\ page' = StartPage(cap)
    /\ data' = <<>>
    /\ tasks' = <<>>
    /\ futures' = <<>>
    /\ pc' = "while"
    /\ UNCHANGED <<server, max_workers, cache, stack, result, err, ret, pid_set,
                   issued, sessionVars, extVars>>

\* stats: return self.Result(sorted(ret, key=lambda x: x['id']))
ReturnStats ==
    /\ pc = "lang"
    /\ languages = <<>>
    /\ result' = SortById(ret)
    /\ pc' = "done"
    /\ UNCHANGED <<server, max_workers, cache, stack, err, languages, language, ret,
                   page, has_content, futures, tasks, data, pid_set, issued,
                   sessionVars, extVars>>

\* while has_content: has_content = False; futures.clear()
While ==
    /\ pc = "while"
    /\ IF has_content
       THEN /\ has_content' = FALSE
            /\ futures' = <<>>
            /\ pc' = "submit"
       ELSE /\ pc' = "wrapup"
            /\ UNCHANGED <<has_content, futures>>
    /\ UNCHANGED <<server, max_workers, cache, stack, result, err, languages,
                   language, ret, page, tasks, data, pid_set, issued, sessionVars, extVars>>

\* AdvanceCursor moving the cursor past a page
AdvanceCursorSkipping(p) == p + 2

\* params['page'] += 1
AdvanceCursor(p) == p + 1

\* the round a task submitted now belongs to
CurrentRound ==
    IF tasks = <<>> THEN 1
    ELSE IF futures = <<>> THEN tasks[Len(tasks)].round + 1
    ELSE tasks[Len(tasks)].round

\* for _ in range(max_workers):
\*     futures.append(executor.submit(self.new_get, url, params=params.copy()))
\*     params['page'] += 1
Submit ==
    /\ pc = "submit"
    /\ tasks' = Append(tasks, [page |-> page, round |-> CurrentRound, st |-> "queued"])
    /\ futures' = Append(futures, Len(tasks) + 1)
    /\ page' = AdvanceCursor(page)
    /\ issued' = issued + 1
    /\ pc' = IF Len(futures) + 1 = max_workers THEN "join" ELSE "submit"
    /\ UNCHANGED <<server, max_workers, cache, stack, result, err, languages,
                   language, ret, has_content, data, pid_set, sessionVars, extVars>>

\* a worker thread: the request of task i is answered
WorkerGet(i) ==
    /\ i \in InFlight
    /\ tasks' = [tasks EXCEPT ![i].st = "done"]
    /\ UNCHANGED <<server, max_workers, cache, stack, pc, result, err, languages,
                   language, ret, page, has_content, futures, data, pid_set, issued,
                   sessionVars, extVars>>

\* a worker thread: the request of task i fails with a transport exception.
\* new_get catches it and calls itself with the same arguments, so the same
\* request is in flight again; self.get lets the exception end the task
WorkerFail(i) ==
    /\ i \in InFlight
    /\ tasks' = [tasks EXCEPT ![i].st = IF UsesNewGet(cap) THEN "queued" ELSE "raised"]
    /\ UNCHANGED <<server, max_workers, cache, stack, pc, result, err, languages,
                   language, ret, page, has_content, futures, data, pid_set, issued,
                   sessionVars, extVars>>

\* RoundResolved leaving the loop at the first response processed
RoundResolvedAtFirst(ts, fs) == \E j \in Range(fs) : ts[j].st = "yielded"

\* as_completed(futures) has yielded every future of the round
RoundResolved(ts, fs) == \A j \in Range(fs) : ts[j].st = "yielded"

\* for f in as_completed(futures): response = f.result(); ...
Process(i) ==
    /\ pc = "join"
    /\ i \in Range(futures)
    /\ tasks[i].st \in {"done", "raised"}
    /\ tasks' = [tasks EXCEPT ![i].st = "yielded"]
    /\ IF tasks[i].st = "raised"
       THEN /\ err' = [kind |-> "ConnectionError", page |-> tasks[i].page]
            /\ pc' = "raising"
            /\ UNCHANGED <<has_content, data, pid_set>>
       ELSE LET acc == ParsePage(cap, Respond(cap, language, tasks[i].page),
                                 [has_content |-> has_content, data |-> data,
                                  pid_set |-> pid_set, err |-> "none"])
            IN  /\ has_content' = acc.has_content
                /\ data' = acc.data
                /\ pid_set' = acc.pid_set
                /\ IF acc.err # "none"
                   THEN /\ err' = [kind |-> acc.err, page |-> tasks[i].page]
                        /\ pc' = "raising"
                   ELSE /\ err' = err
                        /\ pc' = IF RoundResolved(tasks', futures) THEN "while"
                                 ELSE "join"
    /\ UNCHANGED <<server, max_workers, cache, stack, result, languages, language,
                   ret, page, futures, issued, sessionVars, extVars>>

\* an exception leaves the with block: ThreadPoolExecutor.__exit__ waits for
\* the tasks still running, then the exception goes on to the caller
Unwind ==
    /\ pc = "raising"
    /\ InFlight = {}
    /\ pc' = "raised"
    /\ UNCHANGED <<server, max_workers, cache, stack, result, err, fetchVars,
                   sessionVars, extVars>>

\* after the loop: stats extends ret by the records of the language,
\* the others return self.Result(sorted(data, key=lambda x: x['id']))
WrapUp ==
    /\ pc = "wrapup"
    /\ IF cap \in StatsCaps
       THEN /\ ret' = ret \o data
            /\ pc' = "lang"
            /\ UNCHANGED result
       ELSE /\ result' = SortById(data)
            /\ pc' = "done"
            /\ UNCHANGED ret
    /\ UNCHANGED <<server, max_workers, cache, stack, err, languages, language, page,
                   has_content, futures, tasks, data, pid_set, issued, sessionVars, extVars>>

(***************************************************************************)
(* The wrappers of a capability: list_to_tuple, then lru_cache.            *)
(***************************************************************************)
\* a call as the caller writes it: style "noarg", "pos" or "kw"; type of the
\* argument "str", "list", "set", "dict" or "tuple"; its elements
Invocation(style, type, elems) == [style |-> style, type |-> type, elems |-> elems]

\* the key lru_cache builds from the arguments the wrapped function receives:
\* positional and keyword arguments are kept apart, a str is not a tuple
CacheKey(kw, kind, elems) == [kw |-> kw, kind |-> kind, elems |-> elems]

\* list_to_tuple: a list, dict or set argument becomes tuple(argument), any
\* other argument is passed on as it is.  The keys the call can map to.
ListToTuple(inv) ==
    CASE inv.style = "noarg" -> {CacheKey(FALSE, "none", <<>>)}
      [] inv.type = "str" -> {CacheKey(inv.style = "kw", "str", inv.elems)}
      [] inv.type = "set" ->
            {CacheKey(inv.style = "kw", "tuple", p) : p \in Perms(Range(inv.elems))}
      [] OTHER -> {CacheKey(inv.style = "kw", "tuple", inv.elems)}

\* position of the entry of key k in a cache, 0 if none
IndexOfKey(c, k) ==
    LET at == {i \in DOMAIN c : c[i].key = k}
    IN  IF at = {} THEN 0
        ELSE CHOOSE i \in at : \A j \in at : j <= i

RemoveAt(s, i) == SubSeq(s, 1, i - 1) \o SubSeq(s, i + 1, Len(s))

\* a hit makes the entry the most recently used one
Touch(c, i) == Append(RemoveAt(c, i), c[i])

\* a new entry takes the place of the least recently used one when the cache is full
Insert(c, k, v) ==
    IF IndexOfKey(c, k) # 0 THEN c
    ELSE IF Len(c) >= LruMaxSize THEN Append(Tail(c), [key |-> k, val |-> v])
    ELSE Append(c, [key |-> k, val |-> v])

\* lru_cache: the key of the call is in the cache
Hit ==
    /\ pc = "call"
    /\ IndexOfKey(cache[cap], key) # 0
    /\ LET i == IndexOfKey(cache[cap], key)
       IN  /\ result' = cache[cap][i].val
           /\ cache' = [cache EXCEPT ![cap] = Touch(@, i)]
    /\ pc' = "ret"
    /\ UNCHANGED <<server, max_workers, stack, err, fetchVars, sessionVars, extVars>>

\* lru_cache: the key is not in the cache, the wrapped function is called
Miss ==
    /\ pc = "call"
    /\ IndexOfKey(cache[cap], key) = 0
    /\ pc' = "body"
    /\ UNCHANGED <<server, max_workers, cache, stack, result, err, fetchVars,
                   sessionVars, extVars>>

\* stats: if languages == None: return self.stats('')
Delegate ==
    /\ pc = "body"
    /\ cap = "stats"
    /\ key.kind = "none"
    /\ stack' = Append(stack, [cap |-> "stats", key |-> CacheKey(FALSE, "str", <<EmptyStr>>)])
    /\ pc' = "call"
    /\ UNCHANGED <<server, max_workers, cache, result, err, fetchVars, sessionVars, extVars>>

\* lru_cache: the value the wrapped function returned is stored
Store ==
    /\ pc = "done"
    /\ cache' = [cache EXCEPT ![cap] = Insert(@, key, result)]
    /\ pc' = "ret"
    /\ UNCHANGED <<server, max_workers, stack, result, err, fetchVars, sessionVars, extVars>>

\* the wrapper returns to its caller: the session, or the body of stats(None),
\* which returns the same value
Return ==
    /\ pc = "ret"
    /\ history' = IF \E h \in history : h.cap = cap /\ h.key = key THEN history
                  ELSE history \cup {[cap |-> cap, key |-> key, val |-> result]}
    /\ stack' = SubSeq(stack, 1, Len(stack) - 1)
    /\ pc' = IF Len(stack) = 1 THEN "idle" ELSE "done"
    /\ UNCHANGED <<server, max_workers, cache, result, err, fetchVars, nextFiller,
                   callsLeft, extVars>>

\* an exception reaches the caller through every frame: nothing is cached
Catch ==
    /\ pc = "raised"
    /\ stack' = <<>>
    /\ pc' = "idle"
    /\ UNCHANGED <<server, max_workers, cache, result, err, fetchVars, sessionVars, extVars>>

(***************************************************************************)
(* The session: the calls a caller makes.                                  *)
(***************************************************************************)
\* the calls of stats with no argument, '' or a collection of languages
SessionCalls ==
    {Invocation("noarg", "str", <<>>),
     Invocation("pos", "str", <<EmptyStr>>),
     Invocation("pos", "list", <<Name(1), Name(2)>>),
     Invocation("pos", "list", <<Name(2), Name(1)>>),
     Invocation("kw", "list", <<Name(1), Name(2)>>),
     Invocation("pos", "set", <<Name(1), Name(2)>>)}

\* calls of stats with one language the database does not know, all distinct
NumFillers == LruMaxSize
Filler(n) == Invocation("pos", "str", <<Junk(n)>>)

BeginCall(k) ==
    /\ stack' = <<[cap |-> "stats", key |-> k]>>
    /\ pc' = "call"
    /\ err' = NoErr
    /\ issued' = 0
    /\ UNCHANGED <<server, max_workers, cache, result, languages, language, ret, page,
                   has_content, futures, tasks, data, pid_set, history, extVars>>

\* the caller calls stats; the run of filler calls is not interrupted
Call(inv) ==
    /\ pc = "idle"
    /\ callsLeft > 0
    /\ nextFiller \in {0, NumFillers}
    /\ callsLeft' = callsLeft - 1
    /\ nextFiller' = nextFiller
    /\ \E k \in ListToTuple(inv) : BeginCall(k)

CallFiller ==
    /\ pc = "idle"
    /\ nextFiller < NumFillers
    /\ callsLeft \in 1..(MaxCalls - 1)
    /\ nextFiller' = nextFiller + 1
    /\ callsLeft' = callsLeft
    /\ \E k \in ListToTuple(Filler(nextFiller + 1)) : BeginCall(k)

(***************************************************************************)
(* Specifications.                                                         *)
(***************************************************************************)
Idle ==
    /\ cache = [c \in Caps |-> <<>>]
    /\ result = <<>>
    /\ err = NoErr
    /\ languages = <<>>
    /\ language = NoLanguage
    /\ ret = <<>>
    /\ page = 0
    /\ has_content = FALSE
    /\ futures = <<>>
    /\ tasks = <<>>
    /\ data = <<>>
    /\ pid_set = {}
    /\ nextFiller = 0
    /\ history = {}
    /\ issued = 0
    /\ requests = <<>>

\* no login under way
NoLogin ==
    /\ tokens = <<>>
    /\ post_url = "none"
    /\ homepage = <<>>
    /\ username = "none"

\* no call of problem under way
NoProblem ==
    /\ problem_pages = <<>>
    /\ problem_ids = <<>>
    /\ columns = "unbound"

\* no helper function under evaluation
NoHelper ==
    /\ input = "none"
    /\ output = "none"

\* the calls one capability invocation is explored for
BodyCalls ==
    {[cap |-> c, key |-> CacheKey(FALSE, "none", <<>>)] :
        c \in {"problems", "problems_low", "problems_v2", "achievements"}}
    \cup {[cap |-> "stats", key |-> CacheKey(FALSE, "str", <<l>>)] :
            l \in {EmptyStr, Code(1), Name(2), Junk(1)}}
    \cup {[cap |-> "stats", key |-> CacheKey(FALSE, "tuple", t)] :
            t \in {<<Name(1), Name(2)>>, <<Junk(1), Code(2)>>}}
    \cup {[cap |-> "kattis_stats", key |-> CacheKey(FALSE, "str", <<EmptyStr>>)]}

\* one invocation of a capability whose key is not cached: the body runs
Init ==
    /\ Idle /\ NoLogin /\ NoProblem /\ NoHelper
    /\ server \in [0..(MaxContentPages - 1) -> Pages]
    /\ max_workers \in 1..MaxWorkers
    /\ stack \in {<<c>> : c \in BodyCalls}
    /\ pc = "body"
    /\ callsLeft = 0

\* the steps of a paged fetch and of the return through the wrappers
Fetch ==
    \/ SkipLanguage
    \/ NextLanguage
    \/ ReturnStats
    \/ While
    \/ Submit
    \/ \E i \in DOMAIN tasks : WorkerGet(i)
    \/ \E i \in DOMAIN tasks : WorkerFail(i)
    \/ \E i \in DOMAIN tasks : Process(i)
    \/ Unwind
    \/ WrapUp
    \/ Store
    \/ Return
    \/ Catch

Next ==
    \/ EnterPaged
    \/ EnterStats
    \/ EnterKattisStats
    \/ Fetch

Spec == Init /\ [][Next]_vars

\* the thread that called the capability
MainThread ==
    \/ EnterPaged
    \/ EnterStats
    \/ EnterKattisStats
    \/ SkipLanguage
    \/ NextLanguage
    \/ ReturnStats
    \/ While
    \/ Submit
    \/ \E i \in DOMAIN tasks : Process(i)
    \/ Unwind
    \/ WrapUp
    \/ Store
    \/ Return
    \/ Catch

\* the threads of the executor: a request in flight is answered
Workers == \E i \in DOMAIN tasks : WorkerGet(i)

\* the capability under a scheduler that lets every thread run and a site
\* that answers every request in the end
LiveSpec == Init /\ [][Next]_vars /\ WF_vars(MainThread) /\ WF_vars(Workers)

\* pages of the session's site
SessionPages == {NoTable, Table(<<RHead, R1, R2>>)}

\* a session after login: calls of stats, one after the other
SessionInit ==
    /\ Idle /\ NoLogin /\ NoProblem /\ NoHelper
    /\ server \in [0..(MaxContentPages - 1) -> SessionPages]
    /\ max_workers = 1
    /\ stack = <<>>
    /\ pc = "idle"
    /\ callsLeft = MaxCalls

SessionNext ==
    \/ \E inv \in SessionCalls : Call(inv)
    \/ CallFiller
    \/ Hit
    \/ Miss
    \/ Delegate
    \/ EnterStats
    \/ Fetch

SessionSpec == SessionInit /\ [][SessionNext]_vars

(***************************************************************************)
(* OpenKattis.problem: one page, one statistics and one submissions        *)
(* request per requested id.                                               *)
(***************************************************************************)
ProblemIds == 1..MaxProblemIds

\* what the site holds for a problem id.  ok: response.ok of /problems/{id};
\* body: the page has the div 'problembody'; difficulty: its metadata grid has
\* the difficulty card; rows: the rows of its statistics / submissions tables
\* ("none", "short": fewer cells than DIFFICULTY_CATEGORY + 1, "long")
ProblemPage(ok, body, difficulty, rows) ==
    [ok |-> ok, body |-> body, difficulty |-> difficulty, rows |-> rows]

ProblemPages ==
    {ProblemPage(FALSE, FALSE, FALSE, "none"), ProblemPage(TRUE, FALSE, FALSE, "none")}
    \cup {ProblemPage(TRUE, TRUE, d, r) : d \in BOOLEAN, r \in {"none", "short", "long"}}

\* the calls of problem: one id as a str, or a tuple of ids
ProblemCalls ==
    {[cap |-> "problem", key |-> CacheKey(FALSE, "str", <<i>>)] : i \in ProblemIds}
    \cup {[cap |-> "problem", key |-> CacheKey(FALSE, "tuple", t)] :
            t \in UNION {[1..n -> ProblemIds] : n \in 1..MaxProblemIds}}

Request(kind, arg) == [kind |-> kind, arg |-> arg]

\* ret = []; a str becomes [problem_ids]; for problem_id in {*problem_ids}
EnterProblem ==
    /\ pc = "body"
    /\ cap = "problem"
    /\ ret' = <<>>
    /\ problem_ids' \in Perms(Range(key.elems))
    /\ pc' = "problem_next"
    /\ UNCHANGED <<server, max_workers, cache, stack, result, err, languages, language,
                   page, has_content, futures, tasks, data, pid_set, issued,
                   sessionVars, requests, loginVars, problem_pages, columns,
                   helperVars>>

\* response = self.new_get(f'{base_url}/problems/{problem_id}')
ProblemGet ==
    /\ pc = "problem_next"
    /\ problem_ids # <<>>
    /\ requests' = Append(requests, Request("page", Head(problem_ids)))
    /\ pc' = "problem_get"
    /\ UNCHANGED <<server, max_workers, cache, stack, result, err, fetchVars,
                   sessionVars, loginVars, problemVars, helperVars>>

\* the request fails with a transport exception: new_get calls itself again
ProblemGetFail ==
    /\ pc = "problem_get"
    /\ UNCHANGED vars

\* the difficulty card: float((re.findall(..., columns[DIFFICULTY_CATEGORY].text)
\* or [None])[-1]) reads the local variable columns, which this iteration has
\* not assigned: "value" (of the row an earlier id left there) or the exception
Difficulty(cols) ==
    CASE cols = "unbound" -> "UnboundLocalError"
      [] cols = "short" -> "IndexError"
      [] OTHER -> "value"

\* the response of /problems/{id}: not ok -> ignored; else the body and the
\* metadata cards are read
ProblemResponse ==
    /\ pc = "problem_get"
    /\ LET id == Head(problem_ids)
           pg == problem_pages[id]
           failure == IF ~pg.body THEN "AttributeError"
                      ELSE IF pg.difficulty /\ Difficulty(columns) # "value"
                      THEN Difficulty(columns) ELSE "none"
       IN  IF ~pg.ok
           THEN /\ problem_ids' = Tail(problem_ids)
                /\ pc' = "problem_next"
                /\ err' = err
           ELSE IF failure # "none"
           THEN /\ err' = [kind |-> failure, page |-> id]
                /\ pc' = "raised"
                /\ UNCHANGED problem_ids
           ELSE /\ pc' = "problem_statistics"
                /\ err' = err
                /\ UNCHANGED problem_ids
    /\ UNCHANGED <<server, max_workers, cache, stack, result, fetchVars, sessionVars,
                   requests, loginVars, problem_pages, columns, helperVars>>

\* soup = self.get_soup_response(f'{base_url}/problems/{problem_id}/statistics');
\* the loop over the rows of its tables binds columns
ProblemStatistics ==
    /\ pc = "problem_statistics"
    /\ requests' = Append(requests, Request("statistics", Head(problem_ids)))
    /\ columns' = IF problem_pages[Head(problem_ids)].rows = "none" THEN columns
                  ELSE problem_pages[Head(problem_ids)].rows
    /\ pc' = "problem_submissions"
    /\ UNCHANGED <<server, max_workers, cache, stack, result, err, fetchVars,
                   sessionVars, loginVars, problem_pages, problem_ids, helperVars>>

\* soup = self.get_soup_response(f'{base_url}/problems/{problem_id}?tab=submissions');
\* ...; ret.append(data)
ProblemSubmissions ==
    /\ pc = "problem_submissions"
    /\ requests' = Append(requests, Request("submissions", Head(problem_ids)))
    /\ ret' = Append(ret, [id |-> Head(problem_ids)])
    /\ problem_ids' = Tail(problem_ids)
    /\ pc' = "problem_next"
    /\ UNCHANGED <<server, max_workers, cache, stack, result, err, languages, language,
                   page, has_content, futures, tasks, data, pid_set, issued,
                   sessionVars, loginVars, problem_pages, columns, helperVars>>

\* return self.Result(ret)
ProblemResult(records) == records

ProblemReturn ==
    /\ pc = "problem_next"
    /\ problem_ids = <<>>
    /\ result' = ProblemResult(ret)
    /\ pc' = "done"
    /\ UNCHANGED <<server, max_workers, cache, stack, err, fetchVars, sessionVars,
                   extVars>>

\* one call of problem on a site holding any page for each id
ProblemInit ==
    /\ Idle /\ NoLogin /\ NoHelper
    /\ server = <<>>
    /\ max_workers = 1
    /\ problem_pages \in [ProblemIds -> ProblemPages]
    /\ problem_ids = <<>>
    /\ columns = "unbound"
    /\ stack \in {<<c>> : c \in ProblemCalls}
    /\ pc = "body"
    /\ callsLeft = 0

ProblemNext ==
    \/ EnterProblem
    \/ ProblemGet
    \/ ProblemGetFail
    \/ ProblemResponse
    \/ ProblemStatistics
    \/ ProblemSubmissions
    \/ ProblemReturn

ProblemSpec == ProblemInit /\ [][ProblemNext]_vars

(***************************************************************************)
(* LoginManager.login(username, password, 'email').                        *)
(***************************************************************************)
Tokens == {"111", "222"}

\* response.url of the POST: origin: it lies within the origin of the base
\* URL; prefix: the string starts with the base URL.  A URL of the site, a
\* URL of another site, and a URL of another site whose host begins with the
\* host of the base URL (https://open.kattis.com.example.org/)
Url(origin, prefix) == [origin |-> origin, prefix |-> prefix]
PostUrls == {Url(TRUE, TRUE), Url(FALSE, FALSE), Url(FALSE, TRUE)}

\* href.split('/') of the links of the landing page; <<>>: <a> without href
Hrefs ==
    {<<>>} \cup
    {<<"", "users", u>> : u \in {"alice", "bob"}} \cup
    {<<"", "users", "alice", "settings">>,
     <<"", "users">>,
     <<"", "problems", "hello">>,
     <<"https:", "", "open.kattis.com", "users", "bob">>}

RECURSIVE SeqsUpTo(_, _)
\* the sequences over S of length at most n
SeqsUpTo(S, n) ==
    IF n = 0 THEN {<<>>}
    ELSE LET shorter == SeqsUpTo(S, n - 1)
         IN  shorter \cup {Append(q, x) : q \in {r \in shorter : Len(r) = n - 1}, x \in S}

\* response = self.user.new_get(f'{base_url}/login/email')
LoginGetToken ==
    /\ pc = "login"
    /\ requests' = Append(requests, Request("GET", "login/email"))
    /\ pc' = "login_get"
    /\ UNCHANGED <<server, max_workers, cache, stack, result, err, fetchVars,
                   sessionVars, loginVars, problemVars, helperVars>>

\* the GET fails with a transport exception: new_get calls itself again
LoginGetFail ==
    /\ pc = "login_get"
    /\ UNCHANGED vars

\* SingleToken accepting any number of candidates but zero
SomeToken(regex_result) == Len(regex_result) >= 1

\* assert len(regex_result) == 1
SingleToken(regex_result) == Len(regex_result) = 1

\* regex_result = re.findall(r'value="(\d+)"', response.text); the assert
LoginToken ==
    /\ pc = "login_get"
    /\ IF SingleToken(tokens)
       THEN pc' = "login_post" /\ err' = err
       ELSE pc' = "raised" /\ err' = [kind |-> "AssertionError", page |-> -1]
    /\ UNCHANGED <<server, max_workers, cache, stack, result, fetchVars, sessionVars,
                   extVars>>

\* response = self.user.new_post(f'{base_url}/login/email', data=data) with
\* data['csrf_token'] = regex_result[0]
LoginPost ==
    /\ pc = "login_post"
    /\ requests' = Append(requests, Request("POST", tokens[1]))
    /\ pc' = "login_posting"
    /\ UNCHANGED <<server, max_workers, cache, stack, result, err, fetchVars,
                   sessionVars, loginVars, problemVars, helperVars>>

\* the POST fails with a transport exception: new_post calls itself again
LoginPostFail ==
    /\ pc = "login_posting"
    /\ UNCHANGED vars

\* response.url.startswith(self.user.get_base_url())
StartsWithBaseUrl(url) == url.prefix

\* assert response.url.startswith(base_url), '[login] Cannot login to Kattis'
LoginPosted ==
    /\ pc = "login_posting"
    /\ IF StartsWithBaseUrl(post_url)
       THEN pc' = "login_homepage" /\ err' = err
       ELSE pc' = "raised" /\ err' = [kind |-> "AssertionError", page |-> -1]
    /\ UNCHANGED <<server, max_workers, cache, stack, result, fetchVars, sessionVars,
                   extVars>>

\* self.user.load_homepage(): the landing page is requested and stored
LoginLoadHomepage ==
    /\ pc = "login_homepage"
    /\ requests' = Append(requests, Request("GET", "homepage"))
    /\ pc' = "login_names"
    /\ UNCHANGED <<server, max_workers, cache, stack, result, err, fetchVars,
                   sessionVars, loginVars, problemVars, helperVars>>

RECURSIVE UserNames(_)
\* names: paths[2] of every href with len(paths) > 2 and paths[1] == 'users'
UserNames(hrefs) ==
    IF hrefs = <<>> THEN <<>>
    ELSE LET paths == Head(hrefs)
             rest == UserNames(Tail(hrefs))
         IN  IF paths # <<>> /\ Len(paths) > 2 /\ paths[2] = "users"
             THEN <<paths[3]>> \o rest
             ELSE rest

\* ctr[name] of ctr = Counter(names)
Ctr(names, name) == Cardinality({i \in DOMAIN names : names[i] = name})

\* max(ctr.values())
MaxFreq(names) ==
    CHOOSE m \in 1..Len(names) :
        /\ \E i \in DOMAIN names : Ctr(names, names[i]) = m
        /\ \A i \in DOMAIN names : Ctr(names, names[i]) <= m

RECURSIVE Distinct(_)
\* the keys of Counter(names): the distinct names in the order first seen
Distinct(names) ==
    IF names = <<>> THEN <<>>
    ELSE LET front == SubSeq(names, 1, Len(names) - 1)
             last == names[Len(names)]
         IN  IF \E i \in DOMAIN front : front[i] = last THEN Distinct(front)
             ELSE Append(Distinct(front), last)

\* CandidateUsernames without the test of the frequency
CandidateUsernamesAnyFreq(names) == Distinct(names)

\* [name for name in ctr if ctr[name] == max_freq]
CandidateUsernames(names) ==
    LET IsMax(name) == Ctr(names, name) = MaxFreq(names)
    IN  SelectSeq(Distinct(names), IsMax)

\* ctr = Counter(names); assert ctr; ...; return candidate_usernames[0]
LoginUsername ==
    /\ pc = "login_names"
    /\ LET names == UserNames(homepage)
       IN  IF names = <<>>
           THEN /\ pc' = "raised"
                /\ err' = [kind |-> "AssertionError", page |-> -1]
                /\ UNCHANGED username
           ELSE /\ username' = CandidateUsernames(names)[1]
                /\ pc' = "done"
                /\ err' = err
    /\ UNCHANGED <<server, max_workers, cache, stack, result, fetchVars, sessionVars,
                   requests, tokens, post_url, homepage, problemVars, helperVars>>

\* a login at a site holding any login page, redirect and landing page
LoginInit ==
    /\ Idle /\ NoProblem /\ NoHelper
    /\ server = <<>>
    /\ max_workers = 1
    /\ stack = <<>>
    /\ callsLeft = 0
    /\ tokens \in SeqsUpTo(Tokens, MaxTokens)
    /\ post_url \in PostUrls
    /\ homepage \in SeqsUpTo(Hrefs, MaxLinks)
    /\ username = "none"
    /\ pc = "login"

LoginNext ==
    \/ LoginGetToken
    \/ LoginGetFail
    \/ LoginToken
    \/ LoginPost
    \/ LoginPostFail
    \/ LoginPosted
    \/ LoginLoadHomepage
    \/ LoginUsername

LoginSpec == LoginInit /\ [][LoginNext]_vars

(***************************************************************************)
(* guess_id: the resolution of a code or a display name against a map from *)
(* codes to names.  A dict is the sequence of its items in insertion order.*)
(***************************************************************************)
Words == {"SGP", "Singapore", "MYS"}
Guesses == Words \cup {"Sngapore"}

Items == [k : Words, v : Words]

\* the dicts of at most MaxEntries items: no key twice
DataMaps ==
    {d \in SeqsUpTo(Items, MaxEntries) :
        \A i, j \in DOMAIN d : d[i].k = d[j].k => i = j}

\* the score tables of fuzz.ratio(guess, c) and fuzz.partial_ratio(guess, c)
Ratios == [Words -> 0..MaxScore]
PartialRatios == [Words -> 0..1]

\* k in d
DictHas(d, k) == \E i \in DOMAIN d : d[i].k = k

\* a value in place of d[k]
DictGetKey(d, k) == k

\* d[k]
DictGet(d, k) == d[CHOOSE i \in DOMAIN d : d[i].k = k].v

\* d[k] = v: a new key goes last, a known key keeps its place
DictSet(d, k, v) ==
    IF DictHas(d, k)
    THEN [i \in DOMAIN d |-> IF d[i].k = k THEN [k |-> k, v |-> v] ELSE d[i]]
    ELSE Append(d, [k |-> k, v |-> v])

RECURSIVE DictUpdate(_, _)
\* {**d, **items}
DictUpdate(d, items) ==
    IF items = <<>> THEN d
    ELSE DictUpdate(DictSet(d, Head(items).k, Head(items).v), Tail(items))

\* reverse_mapping = {v:k for k,v in data.items()}
ReverseMapping(d) ==
    DictUpdate(<<>>, [i \in DOMAIN d |-> [k |-> d[i].v, v |-> d[i].k]])

\* candidates = {**data, **reverse_mapping}
Candidates(d) == DictUpdate(d, ReverseMapping(d))

\* the order of the tuples (ratio, partial_ratio)
ScoreLess(a, b) == a[1] < b[1] \/ (a[1] = b[1] /\ a[2] < b[2])

\* max(candidates, key=...): the first of the keys no key exceeds
Best(candidates, ratio, partial_ratio) ==
    LET score(i) == <<ratio[candidates[i].k], partial_ratio[candidates[i].k]>>
        first == CHOOSE i \in DOMAIN candidates :
                    /\ \A j \in DOMAIN candidates : ~ScoreLess(score(i), score(j))
                    /\ \A j \in 1..(i - 1) : ScoreLess(score(j), score(i))
    IN  candidates[first].k

Returned(v) == [kind |-> "value", value |-> v]
Raised(kind) == [kind |-> kind, value |-> ""]

GuessId(guess, d, ratio, partial_ratio) ==
    LET reverse_mapping == ReverseMapping(d)
        candidates == Candidates(d)
        best == Best(candidates, ratio, partial_ratio)
    IN  IF DictHas(d, guess) THEN Returned(guess)
        ELSE IF DictHas(reverse_mapping, guess)
        THEN Returned(DictGet(reverse_mapping, guess))
        ELSE IF candidates = <<>> THEN Raised("ValueError")
        ELSE IF DictHas(d, best) THEN Returned(best)
        ELSE IF DictHas(reverse_mapping, best)
        THEN Returned(DictGet(reverse_mapping, best))
        ELSE Raised("Exception: Invalid ID provided")

\* country_code = guess_id(value, self.get_database().get_countries())
CallGuessId ==
    /\ pc = "guess_id"
    /\ output' = GuessId(input.guess, input.data, input.ratio, input.partial_ratio)
    /\ pc' = IF output'.kind = "value" THEN "done" ELSE "raised"
    /\ UNCHANGED <<server, max_workers, cache, stack, result, err, fetchVars,
                   sessionVars, requests, loginVars, problemVars, input>>

\* a call of guess_id on any guess, any map and any scores
GuessInit ==
    /\ Idle /\ NoLogin /\ NoProblem
    /\ server = <<>>
    /\ max_workers = 1
    /\ stack = <<>>
    /\ callsLeft = 0
    /\ input \in [guess : Guesses, data : DataMaps, ratio : Ratios,
                  partial_ratio : PartialRatios]
    /\ output = Raised("none")
    /\ pc = "guess_id"

GuessNext == CallGuessId

GuessSpec == GuessInit /\ [][GuessNext]_vars

(***************************************************************************)
(* The difficulty cell of a row: its text is read as the runs the pattern  *)
(* [\d\.]+ finds in it and the runs the pattern [A-Za-z]+ finds in it.     *)
(***************************************************************************)
\* a run of digits and dots that float() converts, and one it rejects ('.')
Number(n) == [float |-> TRUE, value |-> n]
Dots == [float |-> FALSE, value |-> 0]

NumericRuns == {Dots} \cup {Number(n) : n \in 1..MaxDifficulty}
AlphaRuns == {"Easy", "Hard"}

DifficultyCaps == {"problems", "achievements", "problem_authors", "problem_sources"}

\* the difficulty cells of a row
Cells ==
    [cap : DifficultyCaps,
     numeric : SeqsUpTo(NumericRuns, MaxRuns),
     alpha : SeqsUpTo(AlphaRuns, MaxRuns)]

\* float(x) of a run, or of None when there is no run: <<>> is None
Float(runs) ==
    IF runs = <<>> THEN [kind |-> "TypeError", value |-> <<>>]
    ELSE IF ~runs[Len(runs)].float THEN [kind |-> "ValueError", value |-> <<>>]
    ELSE [kind |-> "value", value |-> <<runs[Len(runs)].value>>]

\* difficulty = float((re.findall(...) or [None])[-1])
DifficultyProblems(numeric) == Float(numeric)

\* try: difficulty = float(re.findall(...)[-1])  except: difficulty = None
DifficultyGuarded(numeric) ==
    IF numeric = <<>> \/ Float(numeric).kind # "value"
    THEN [kind |-> "value", value |-> <<>>]
    ELSE Float(numeric)

\* category = (re.findall('[A-Za-z]+', ...) or ['N/A'])[0]
Category(alpha) == IF alpha = <<>> THEN "N/A" ELSE alpha[1]

\* the record of the row, or the exception that ends the call
Record(difficulty, category) ==
    IF difficulty.kind = "value"
    THEN [kind |-> "value", difficulty |-> difficulty.value, category |-> category]
    ELSE [kind |-> difficulty.kind, difficulty |-> <<>>, category |-> ""]

RowDone(rec) ==
    /\ output' = rec
    /\ pc' = IF rec.kind = "value" THEN "done" ELSE "raised"
    /\ UNCHANGED <<server, max_workers, cache, stack, result, err, fetchVars,
                   sessionVars, requests, loginVars, problemVars, input>>

\* a row of problems(low_detail_mode=False)
CellProblems ==
    /\ pc = "row" /\ input.cap = "problems"
    /\ RowDone(Record(DifficultyProblems(input.numeric), Category(input.alpha)))

\* a row of achievements
CellAchievements ==
    /\ pc = "row" /\ input.cap = "achievements"
    /\ RowDone(Record(DifficultyGuarded(input.numeric), Category(input.alpha)))

\* a row of problem_authors
CellProblemAuthors ==
    /\ pc = "row" /\ input.cap = "problem_authors"
    /\ RowDone(Record(DifficultyGuarded(input.numeric), Category(input.alpha)))

\* a row of problem_sources
CellProblemSources ==
    /\ pc = "row" /\ input.cap = "problem_sources"
    /\ RowDone(Record(DifficultyGuarded(input.numeric), Category(input.alpha)))

\* a row with any difficulty cell in any of the four capabilities
DifficultyInit ==
    /\ Idle /\ NoLogin /\ NoProblem
    /\ server = <<>>
    /\ max_workers = 1
    /\ stack = <<>>
    /\ callsLeft = 0
    /\ input \in Cells
    /\ output = Record([kind |-> "none", value |-> <<>>], "")
    /\ pc = "row"

DifficultyNext ==
    \/ CellProblems
    \/ CellAchievements
    \/ CellProblemAuthors
    \/ CellProblemSources

DifficultySpec == DifficultyInit /\ [][DifficultyNext]_vars

(***************************************************************************)
(* The rows of one table: achievements, user_ranklist and the country      *)
(* list of country_ranklist.                                               *)
(***************************************************************************)
\* the row of a ranklist that holds an ellipsis in its only cell
REllipsis == Row(1, TRUE, FALSE, FALSE, 0, EmptyStr, 0, 0, NoScore, 0, FALSE, 0)

TableRows == {R1, R2, RBlank, RNoLink, REllipsis}
TableCaps == {"achievements", "user_ranklist", "country_ranklist"}

\* data = []
NoRecords == [has_content |-> FALSE, data |-> <<>>, pid_set |-> {}, err |-> "none"]

\* the dict of a row of user_ranklist: columns_text[...], name_urls[0],
\* float(columns_text[SCORE])
RowUserRanklist(row, acc) ==
    IF row.ntd <= SCORE THEN Raise(acc, "IndexError")
    ELSE IF ~row.anchor THEN Raise(acc, "IndexError")
    ELSE IF ~row.text THEN Raise(acc, "ValueError")
    ELSE [acc EXCEPT !.data = Append(@, ProblemRecord(row))]

\* the dict of a row of country_ranklist: int(columns_text[RANK]),
\* columns_url[COUNTRY][0]
RowCountryRanklist(row, acc) ==
    IF row.ntd = 0 THEN Raise(acc, "IndexError")
    ELSE IF ~row.text THEN Raise(acc, "ValueError")
    ELSE IF row.ntd <= SCORE \/ ~row.anchor THEN Raise(acc, "IndexError")
    ELSE [acc EXCEPT !.data = Append(@, ProblemRecord(row))]

RECURSIVE ParseRanklist(_, _, _)
\* for row in get_table_rows(table): if len(columns) == 1: break
ParseRanklist(c, rows, acc) ==
    IF rows = <<>> \/ acc.err # "none" THEN acc
    ELSE IF Head(rows).ntd = 1 THEN acc
    ELSE ParseRanklist(c, Tail(rows),
                       IF c = "user_ranklist" THEN RowUserRanklist(Head(rows), acc)
                       ELSE RowCountryRanklist(Head(rows), acc))

TableDone(acc) ==
    /\ output' = acc
    /\ pc' = IF acc.err = "none" THEN "done" ELSE "raised"
    /\ UNCHANGED <<server, max_workers, cache, stack, result, err, fetchVars,
                   sessionVars, requests, loginVars, problemVars, input>>

\* the loop over the rows of one response of achievements
TableAchievements ==
    /\ pc = "table" /\ input.cap = "achievements"
    /\ TableDone(ParseRows("achievements", input.rows, NoRecords))

TableUserRanklist ==
    /\ pc = "table" /\ input.cap = "user_ranklist"
    /\ TableDone(ParseRanklist("user_ranklist", input.rows, NoRecords))

TableCountryRanklist ==
    /\ pc = "table" /\ input.cap = "country_ranklist"
    /\ TableDone(ParseRanklist("country_ranklist", input.rows, NoRecords))

\* a table of any rows in any of the three capabilities
TableInit ==
    /\ Idle /\ NoLogin /\ NoProblem
    /\ server = <<>>
    /\ max_workers = 1
    /\ stack = <<>>
    /\ callsLeft = 0
    /\ input \in [cap : TableCaps, rows : SeqsUpTo(TableRows, MaxRows)]
    /\ output = NoRecords
    /\ pc = "table"

TableNext ==
    \/ TableAchievements
    \/ TableUserRanklist
    \/ TableCountryRanklist

TableSpec == TableInit /\ [][TableNext]_vars

(***************************************************************************)
(* replace_double_dash: the text of a runtime or length cell is a sequence *)
(* of characters; a decoded number is sign, numerator and denominator.     *)
(***************************************************************************)
DigitChars == {"0", "1"}
CellChars == DigitChars \cup {"-", ".", " "}
CellTexts == SeqsUpTo(CellChars, MaxText)

\* the columns decoded with float('inf') and with -1
DashColumns == {"fastest", "shortest", "runtime", "length"}
TypeOfNew(column) == IF column \in {"fastest", "runtime"} THEN "float" ELSE "int"

\* str(new): str(float('inf')) and str(-1)
StrOfNew(type) == IF type = "float" THEN <<"i", "n", "f">> ELSE <<"-", "1">>

\* text.replace('--', str(new)) leaving the text as it is
ReplaceNothing(text, new) == text

RECURSIVE ReplaceDashes(_, _)
\* text.replace('--', str(new)): the occurrences from the left, not overlapping
ReplaceDashes(text, new) ==
    IF Len(text) < 2 THEN text
    ELSE IF text[1] = "-" /\ text[2] = "-"
    THEN new \o ReplaceDashes(SubSeq(text, 3, Len(text)), new)
    ELSE <<text[1]>> \o ReplaceDashes(Tail(text), new)

RECURSIVE Strip(_)
\* text.strip()
Strip(text) ==
    IF text = <<>> THEN text
    ELSE IF text[1] = " " THEN Strip(Tail(text))
    ELSE IF text[Len(text)] = " " THEN Strip(SubSeq(text, 1, Len(text) - 1))
    ELSE text

IsDigits(text) == text # <<>> /\ \A i \in DOMAIN text : text[i] \in DigitChars

RECURSIVE DigitsValue(_)
DigitsValue(text) ==
    IF text = <<>> THEN 0
    ELSE 10 * DigitsValue(SubSeq(text, 1, Len(text) - 1))
         + (IF text[Len(text)] = "1" THEN 1 ELSE 0)

RECURSIVE PowerOfTen(_)
PowerOfTen(n) == IF n = 0 THEN 1 ELSE 10 * PowerOfTen(n - 1)

Decoded(type, neg, inf, num, den) ==
    [kind |-> "value", type |-> type, neg |-> neg /\ (inf \/ num # 0), inf |-> inf,
     num |-> num, den |-> den]
DecodeError(type) ==
    [kind |-> "ValueError", type |-> type, neg |-> FALSE, inf |-> FALSE,
     num |-> 0, den |-> 1]

\* the text without its sign
Unsigned(text) == IF text # <<>> /\ text[1] = "-" THEN Tail(text) ELSE text
Negative(text) == text # <<>> /\ text[1] = "-"

\* int(text)
IntOf(text) ==
    LET body == Unsigned(Strip(text))
    IN  IF IsDigits(body)
        THEN Decoded("int", Negative(Strip(text)), FALSE, DigitsValue(body), 1)
        ELSE DecodeError("int")

\* float(text)
FloatOf(text) ==
    LET body == Unsigned(Strip(text))
        neg == Negative(Strip(text))
        dots == {i \in DOMAIN body : body[i] = "."}
        dot == CHOOSE i \in dots : TRUE
        digits == IF dots = {} THEN body
                  ELSE SubSeq(body, 1, dot - 1) \o SubSeq(body, dot + 1, Len(body))
    IN  IF body = <<"i", "n", "f">> THEN Decoded("float", neg, TRUE, 0, 1)
        ELSE IF Cardinality(dots) <= 1 /\ IsDigits(digits)
        THEN Decoded("float", neg, FALSE, DigitsValue(digits),
                     IF dots = {} THEN 1 ELSE PowerOfTen(Len(body) - dot))
        ELSE DecodeError("float")

\* type(new)(text.replace('--', str(new)).strip())
replace_double_dash(text, type) ==
    LET replaced == Strip(ReplaceDashes(text, StrOfNew(type)))
    IN  IF type = "float" THEN FloatOf(replaced) ELSE IntOf(replaced)

DashDone(column) ==
    /\ pc = "cell" /\ input.column = column
    /\ output' = replace_double_dash(input.text, TypeOfNew(column))
    /\ pc' = IF output'.kind = "value" THEN "done" ELSE "raised"
    /\ UNCHANGED <<server, max_workers, cache, stack, result, err, fetchVars,
                   sessionVars, requests, loginVars, problemVars, input>>

\* 'fastest' of a row of problems
DashFastest == DashDone("fastest")

\* 'shortest' of a row of problems
DashShortest == DashDone("shortest")

\* 'runtime' of a row of achievements
DashRuntime == DashDone("runtime")

\* 'length' of a row of achievements
DashLength == DashDone("length")

\* any text in any of the four cells
DashInit ==
    /\ Idle /\ NoLogin /\ NoProblem
    /\ server = <<>>
    /\ max_workers = 1
    /\ stack = <<>>
    /\ callsLeft = 0
    /\ input \in [column : DashColumns, text : CellTexts]
    /\ output = DecodeError("none")
    /\ pc = "cell"

DashNext ==
    \/ DashFastest
    \/ DashShortest
    \/ DashRuntime
    \/ DashLength

DashSpec == DashInit /\ [][DashNext]_vars

(***************************************************************************)
(* suggest and ranklist: the landing page is the sequence of its tables of *)
(* class 'table2 report_grid-problems_table', in document order.           *)
(***************************************************************************)
\* a row: th: it holds a <th>; ntd: its number of <td>; anchor: its first
\* <td> holds a link; lines: the text of its first <td> is 'name\npoints';
\* number: its third <td> holds a number
HomeRow(th, ntd, anchor, lines, number, id) ==
    [th |-> th, ntd |-> ntd, anchor |-> anchor, lines |-> lines,
     number |-> number, id |-> id]

\* the rows of the table of suggestions: the first of a difficulty, a later one
SuggestHead == HomeRow(TRUE, 1, TRUE, TRUE, FALSE, 1)
SuggestRow == HomeRow(FALSE, 1, TRUE, TRUE, FALSE, 2)
\* a row of the ranklist near the user
NearMeRow == HomeRow(FALSE, 3, FALSE, FALSE, TRUE, 3)

HomeTable(kind, rows) == [kind |-> kind, rows |-> rows]

HomeTables ==
    {HomeTable("suggest", rows) : rows \in SeqsUpTo({SuggestHead, SuggestRow}, MaxHomeRows)}
    \cup {HomeTable("ranklist", rows) : rows \in SeqsUpTo({NearMeRow}, MaxHomeRows)}

HomeCaps == {"suggest", "ranklist"}

\* position of the table in find_all(...)
TableIndex(c) == IF c = "suggest" THEN 1 ELSE 2

HomeAcc(difficulty, records, error) ==
    [difficulty |-> difficulty, data |-> records, err |-> error]

\* a row of suggest
RowSuggest(row, acc) ==
    LET bound == acc.difficulty \/ row.th
    IN  IF row.ntd = 0 \/ ~row.anchor THEN HomeAcc(bound, acc.data, "AttributeError")
        ELSE IF ~row.lines THEN HomeAcc(bound, acc.data, "ValueError")
        ELSE IF ~bound THEN HomeAcc(bound, acc.data, "UnboundLocalError")
        ELSE HomeAcc(bound, Append(acc.data, [id |-> row.id, name |-> row.id]), "none")

\* a row of ranklist
RowRanklist(row, acc) ==
    IF row.ntd <= DEFAULT_SCORE \/ ~row.number
    THEN HomeAcc(acc.difficulty, acc.data, "IndexError")
    ELSE HomeAcc(acc.difficulty, Append(acc.data, [id |-> row.id, name |-> row.id]), "none")

RECURSIVE HomeRows(_, _, _)
\* for row in get_table_rows(table)
HomeRows(c, rows, acc) ==
    IF rows = <<>> \/ acc.err # "none" THEN acc
    ELSE HomeRows(c, Tail(rows),
                  IF c = "suggest" THEN RowSuggest(Head(rows), acc)
                  ELSE RowRanklist(Head(rows), acc))

\* try: table = soup.find_all(...)[i]  except: return self.Result([])
HomeBody(c, soup) ==
    IF TableIndex(c) \notin DOMAIN soup THEN HomeAcc(FALSE, <<>>, "none")
    ELSE HomeRows(c, soup[TableIndex(c)].rows, HomeAcc(FALSE, <<>>, "none"))

HomeDone(c) ==
    /\ pc = "home" /\ input.cap = c
    /\ LET acc == HomeBody(c, homepage)
       IN  IF acc.err = "none"
           THEN pc' = "done" /\ result' = acc.data /\ err' = err
           ELSE pc' = "raised" /\ result' = result
                /\ err' = [kind |-> acc.err, page |-> -1]
    /\ UNCHANGED <<server, max_workers, cache, stack, fetchVars, sessionVars,
                   extVars>>

\* soup = self.get_homepage() ... return self.Result(data)
Suggest == HomeDone("suggest")

\* data = []; soup = self.get_homepage() ... return self.Result(data)
Ranklist == HomeDone("ranklist")

\* a call of suggest or ranklist after a login that stored any landing page
HomeInit ==
    /\ Idle /\ NoProblem
    /\ server = <<>>
    /\ max_workers = 1
    /\ stack = <<>>
    /\ callsLeft = 0
    /\ tokens = <<>>
    /\ post_url = Url(TRUE, TRUE)
    /\ username = "alice"
    /\ homepage \in SeqsUpTo(HomeTables, MaxHomeTables)
    /\ input \in [cap : HomeCaps, homepage : {homepage}]
    /\ output = "none"
    /\ pc = "home"

HomeNext ==
    \/ Suggest
    \/ Ranklist

HomeSpec == HomeInit /\ [][HomeNext]_vars

(***************************************************************************)
(* The reducer of stats on the submission rows of one problem.             *)
(***************************************************************************)
\* a submission of problem 1 with a score in its status cell
R1s == Row(9, TRUE, TRUE, TRUE, 1, Name(1), 1, 10, 1, 2, FALSE, 6)

\* submission rows that share the problem id 1
SameIdRows == {R1, R1b, R1c, R1s}

\* the next row of the stream goes through the reducer
StreamRow ==
    /\ pc = "stream"
    /\ input.rest # <<>>
    /\ output' = RowStats(Head(input.rest), output)
    /\ input' = [input EXCEPT !.rest = Tail(@)]
    /\ pc' = IF output'.err = "none" THEN "stream" ELSE "raised"
    /\ UNCHANGED <<server, max_workers, cache, stack, result, err, fetchVars,
                   sessionVars, requests, loginVars, problemVars>>

\* the stream is over: ret.extend(data.values())
StreamEnd ==
    /\ pc = "stream"
    /\ input.rest = <<>>
    /\ pc' = "done"
    /\ UNCHANGED <<server, max_workers, cache, stack, result, err, fetchVars,
                   sessionVars, extVars>>

\* any sequence of submission rows of one problem
StreamInit ==
    /\ Idle /\ NoLogin /\ NoProblem
    /\ server = <<>>
    /\ max_workers = 1
    /\ stack = <<>>
    /\ callsLeft = 0
    /\ \E rows \in SeqsUpTo(SameIdRows, MaxRows) : input = [rows |-> rows, rest |-> rows]
    /\ output = NoRecords
    /\ pc = "stream"

StreamNext ==
    \/ StreamRow
    \/ StreamEnd

StreamSpec == StreamInit /\ [][StreamNext]_vars

(***************************************************************************)
(* NUSKattis.assignments without course_id: the guess of the course.       *)
(***************************************************************************)
CourseIds == 1..MaxCourses
OfferingNames == 1..MaxOfferings

\* the rows of the tables of the landing page, in document order
CourseRows == SeqsUpTo({[id |-> c, name |-> c] : c \in CourseIds}, MaxCourses)

\* course id -> the names of the records offerings(course id) returns
OfferingTables == [CourseIds -> SUBSET OfferingNames]

\* courses(): return self.Result(sorted(data, key=lambda r: r['course_id']))
Courses(rows) == SortById(rows)

\* Result.to_df().<column>: a frame of no records has no columns
Column(records) == IF records = <<>> THEN "AttributeError" ELSE "column"

\* the page of the offerings of a course, of an offering
OfferingsPage(cid) == Request("GET", <<cid>>)
AssignmentsPage(cid, oid) == Request("GET", <<cid, oid>>)

\* a cached capability requests its page once
Requested(req) ==
    IF \E i \in DOMAIN requests : requests[i] = req THEN requests
    ELSE Append(requests, req)

Guessing(course_id, left) == [course_id |-> course_id, left |-> left]

\* for cid in self.courses().to_df().course_id:
AssignEnter ==
    /\ pc = "assignments"
    /\ IF Column(Courses(input.courses)) = "AttributeError"
       THEN /\ pc' = "raised"
            /\ err' = [kind |-> "AttributeError", page |-> -1]
            /\ output' = output
       ELSE /\ pc' = "guess"
            /\ err' = err
            /\ output' = Guessing(0, Courses(input.courses))
    /\ UNCHANGED <<server, max_workers, cache, stack, result, fetchVars, sessionVars,
                   requests, loginVars, problemVars, input>>

\* if offering_id in [*self.offerings(cid).to_df().name]: course_id = cid; break
AssignGuess ==
    /\ pc = "guess"
    /\ output.left # <<>>
    /\ LET cid == Head(output.left).id
           names == input.offerings[cid]
       IN  /\ requests' = Requested(OfferingsPage(cid))
           /\ IF names = {}
              THEN /\ pc' = "raised"
                   /\ err' = [kind |-> "AttributeError", page |-> -1]
                   /\ output' = output
              ELSE IF input.offering_id \in names
              THEN /\ pc' = "guessed"
                   /\ err' = err
                   /\ output' = Guessing(cid, output.left)
              ELSE /\ pc' = "guess"
                   /\ err' = err
                   /\ output' = Guessing(0, Tail(output.left))
    /\ UNCHANGED <<server, max_workers, cache, stack, result, fetchVars, sessionVars,
                   loginVars, problemVars, input>>

\* if course_id == None: return self.Result([])
AssignNoGuess ==
    /\ pc = "guess"
    /\ output.left = <<>>
    /\ result' = <<>>
    /\ pc' = "done"
    /\ UNCHANGED <<server, max_workers, cache, stack, err, fetchVars, sessionVars,
                   extVars>>

\* soup = self.get_soup_response(f'{base_url}/courses/{course_id}/{offering_id}')
AssignPage ==
    /\ pc = "guessed"
    /\ requests' = Requested(AssignmentsPage(output.course_id, input.offering_id))
    /\ result' = <<[id |-> output.course_id, name |-> input.offering_id]>>
    /\ pc' = "done"
    /\ UNCHANGED <<server, max_workers, cache, stack, err, fetchVars, sessionVars,
                   loginVars, problemVars, helperVars>>

\* a call assignments(offering_id) at a site of any courses and offerings
AssignInit ==
    /\ Idle /\ NoLogin /\ NoProblem
    /\ server = <<>>
    /\ max_workers = 1
    /\ stack = <<>>
    /\ callsLeft = 0
    /\ input \in [offering_id : OfferingNames, courses : CourseRows,
                  offerings : OfferingTables]
    /\ output = Guessing(0, <<>>)
    /\ pc = "assignments"

AssignNext ==
    \/ AssignEnter
    \/ AssignGuess
    \/ AssignNoGuess
    \/ AssignPage

AssignSpec == AssignInit /\ [][AssignNext]_vars

(***************************************************************************)
(* NUSKattis.assignments: the list items of an 'Assignments' section.      *)
(***************************************************************************)
\* a list item: whether it holds a span, the number of lines of its text, and
\* the last path component of the link of its anchor
ListItem(span, lines, id) == [span |-> span, lines |-> lines, id |-> id]
AssignmentItems == {ListItem(FALSE, 2, "a"), ListItem(FALSE, 2, "b"),
                    ListItem(FALSE, 1, "a")}
ProblemItems == {ListItem(TRUE, 1, "p"), ListItem(TRUE, 1, "q")}
ListItems == AssignmentItems \cup ProblemItems

\* ','.join(pids)
RECURSIVE Join(_)
Join(pids) ==
    IF pids = <<>> THEN <<>>
    ELSE IF Len(pids) = 1 THEN <<pids[1]>>
    ELSE <<pids[1], ",">> \o Join(Tail(pids))

\* the locals of the loop; aid and pids are unbound until an assignment item
Section(toggle, aid, pids, records) ==
    [toggle |-> toggle, aid |-> aid, pids |-> pids, data |-> records]

\* if toggle: data.append({'id': aid, ..., 'problems': ','.join(pids)})
Flushed(acc) ==
    IF acc.toggle
    THEN Append(acc.data, [id |-> acc.aid, problems |-> Join(acc.pids)])
    ELSE acc.data

AfterAssignmentKeepPids(acc, item) ==
    Section(TRUE, item.id, acc.pids, Flushed(acc))

\* aid = get_last_path(link); pids = []; toggle = True
AfterAssignment(acc, item) ==
    Section(TRUE, item.id, <<>>, Flushed(acc))

\* if asg.find('span') == None: ... name, status = text.split('\n') ...
AssignmentItem ==
    /\ pc = "section"
    /\ input.rest # <<>>
    /\ ~Head(input.rest).span
    /\ LET item == Head(input.rest)
       IN  IF item.lines # 2
           THEN /\ pc' = "raised"
                /\ err' = [kind |-> "ValueError", page |-> -1]
                /\ output' = [output EXCEPT !.data = Flushed(output)]
                /\ input' = input
           ELSE /\ pc' = pc
                /\ err' = err
                /\ output' = AfterAssignment(output, item)
                /\ input' = [input EXCEPT !.rest = Tail(@)]
    /\ UNCHANGED <<server, max_workers, cache, stack, result, fetchVars, sessionVars,
                   requests, loginVars, problemVars>>

\* else: pids.append(get_last_path(asg.find('a').get('href')))
ProblemItem ==
    /\ pc = "section"
    /\ input.rest # <<>>
    /\ Head(input.rest).span
    /\ IF ~output.toggle
       THEN /\ pc' = "raised"
            /\ err' = [kind |-> "NameError", page |-> -1]
            /\ UNCHANGED <<input, output>>
       ELSE /\ pc' = pc
            /\ err' = err
            /\ output' = [output EXCEPT !.pids = Append(@, Head(input.rest).id)]
            /\ input' = [input EXCEPT !.rest = Tail(@)]
    /\ UNCHANGED <<server, max_workers, cache, stack, result, fetchVars, sessionVars,
                   requests, loginVars, problemVars>>

\* if toggle: data.append(...) after the items; return self.Result(data)
SectionEnd ==
    /\ pc = "section"
    /\ input.rest = <<>>
    /\ result' = Flushed(output)
    /\ pc' = "done"
    /\ UNCHANGED <<server, max_workers, cache, stack, err, fetchVars, sessionVars,
                   extVars>>

\* an offering page with one 'Assignments' section of any list items
SectionInit ==
    /\ Idle /\ NoLogin /\ NoProblem
    /\ server = <<>>
    /\ max_workers = 1
    /\ stack = <<>>
    /\ callsLeft = 0
    /\ \E items \in SeqsUpTo(ListItems, MaxItems) :
          input = [items |-> items, rest |-> items]
    /\ output = Section(FALSE, "", <<>>, <<>>)
    /\ pc = "section"

SectionNext ==
    \/ AssignmentItem
    \/ ProblemItem
    \/ SectionEnd

SectionSpec == SectionInit /\ [][SectionNext]_vars

(***************************************************************************)
(* Kattis.Result: the object a cached capability hands out.                *)
(***************************************************************************)
RecordValues == 1..MaxValue
ObjectIds == 1..(MaxRecords + MaxMutations)

\* the contents of a list of record objects
ValuesOf(ids, heap) == [k \in DOMAIN ids |-> heap[ids[k]]]

\* del result[i]
Removed(ids, i) == SubSeq(ids, 1, i - 1) \o SubSeq(ids, i + 1, Len(ids))

\* Result(data): super().__init__(data) copies the references of data into the
\* list; to_df closes over the argument data
Construct(records) ==
    [heap |-> [o \in ObjectIds |-> IF o <= Len(records) THEN records[o] ELSE 0],
     allocated |-> Len(records),
     list |-> [k \in DOMAIN records |-> k],
     data |-> [k \in DOMAIN records |-> k]]

\* self.to_df = lambda: pd.DataFrame(data)
ToDf(object) == ValuesOf(object.data, object.heap)

\* the records read off the Result
Current(object) == ValuesOf(object.list, object.heap)

Caller(first, mutations, returned, frame) ==
    [first |-> first, mutations |-> mutations, returned |-> returned, frame |-> frame]

NoFrame == [read |-> FALSE, got |-> <<>>, current |-> <<>>]

\* the first call: the capability runs and lru_cache stores the object built
ResultFirstCall ==
    /\ pc = "call"
    /\ input' = Construct(input.records)
    /\ output' = Caller(input.records, 0, <<>>, NoFrame)
    /\ pc' = "held"
    /\ UNCHANGED <<server, max_workers, cache, stack, result, err, fetchVars,
                   sessionVars, requests, loginVars, problemVars>>

\* the caller appends a record to the Result it holds
ResultAppend ==
    /\ pc = "held"
    /\ output.mutations < MaxMutations
    /\ \E v \in RecordValues :
          LET o == input.allocated + 1
          IN  input' = [input EXCEPT !.heap[o] = v, !.allocated = o,
                                     !.list = Append(@, o)]
    /\ output' = [output EXCEPT !.mutations = @ + 1]
    /\ UNCHANGED <<server, max_workers, cache, stack, pc, result, err, fetchVars,
                   sessionVars, requests, loginVars, problemVars>>

\* the caller removes a record from the Result it holds
ResultRemove ==
    /\ pc = "held"
    /\ output.mutations < MaxMutations
    /\ \E i \in DOMAIN input.list :
          input' = [input EXCEPT !.list = Removed(@, i)]
    /\ output' = [output EXCEPT !.mutations = @ + 1]
    /\ UNCHANGED <<server, max_workers, cache, stack, pc, result, err, fetchVars,
                   sessionVars, requests, loginVars, problemVars>>

\* the caller edits a record of the Result it holds, in place
ResultEdit ==
    /\ pc = "held"
    /\ output.mutations < MaxMutations
    /\ \E i \in DOMAIN input.list, v \in RecordValues :
          /\ v # input.heap[input.list[i]]
          /\ input' = [input EXCEPT !.heap[input.list[i]] = v]
    /\ output' = [output EXCEPT !.mutations = @ + 1]
    /\ UNCHANGED <<server, max_workers, cache, stack, pc, result, err, fetchVars,
                   sessionVars, requests, loginVars, problemVars>>

\* the caller reads to_df() of the Result it holds
ResultToDf ==
    /\ pc = "held"
    /\ ~output.frame.read
    /\ output' = [output EXCEPT !.frame = [read |-> TRUE, got |-> ToDf(input),
                                           current |-> Current(input)]]
    /\ UNCHANGED <<server, max_workers, cache, stack, pc, result, err, fetchVars,
                   sessionVars, requests, loginVars, problemVars, input>>

\* the repeated call with the same arguments: lru_cache returns the stored object
ResultRepeatedCall ==
    /\ pc = "held"
    /\ output' = [output EXCEPT !.returned = Current(input)]
    /\ pc' = "repeated"
    /\ UNCHANGED <<server, max_workers, cache, stack, result, err, fetchVars,
                   sessionVars, requests, loginVars, problemVars, input>>

\* a capability about to be called at a site of any records
ResultInit ==
    /\ Idle /\ NoLogin /\ NoProblem
    /\ server = <<>>
    /\ max_workers = 1
    /\ stack = <<>>
    /\ callsLeft = 0
    /\ input \in [records : SeqsUpTo(RecordValues, MaxRecords)]
    /\ output = Caller(<<>>, 0, <<>>, NoFrame)
    /\ pc = "call"

ResultNext ==
    \/ ResultFirstCall
    \/ ResultAppend
    \/ ResultRemove
    \/ ResultEdit
    \/ ResultToDf
    \/ ResultRepeatedCall

ResultSpec == ResultInit /\ [][ResultNext]_vars

(***************************************************************************)
(* Properties of the paged fetch.                                          *)
(***************************************************************************)
\* the fetch of the current capability (and language) is under way or just over
Fetching == pc \in {"while", "submit", "join", "wrapup", "raising"} /\ tasks # <<>>

LastRound == tasks[Len(tasks)].round

\* a data row: it has a populated cell and the link its endpoint requires
DataRow(r) == r.ntd > 0 /\ r.text /\ r.anchor

\* the response for page p of the fetch under way holds a data row
PageHasData(p) ==
    LET pg == Respond(cap, language, p)
    IN  pg.container /\ pg.table /\ \E i \in DOMAIN pg.rows : DataRow(pg.rows[i])

\* the page numbers of the k-th batch of the fetch under way
Batch(k) ==
    (StartPage(cap) + (k - 1) * max_workers)..(StartPage(cap) + k * max_workers - 1)

BatchHasData(k) == \E p \in Batch(k) : PageHasData(p)

RECURSIVE FirstEmptyFrom(_)
\* the first round from round k on all of whose pages hold no data row
FirstEmptyFrom(k) == IF BatchHasData(k) THEN FirstEmptyFrom(k + 1) ELSE k

\* the first round all of whose pages hold no data row
FirstEmptyRound == FirstEmptyFrom(1)

\* C1: at the loop test after a round, has_content is true iff a response of
\* that round held a data row; a further round is only ever issued after a
\* round that held one; the fetch is done only after a round that held none
C1_ContinueIffContent ==
    Fetching =>
        /\ pc = "while" => (has_content <=> BatchHasData(LastRound))
        /\ \A k \in 1..(LastRound - 1) : BatchHasData(k)
        /\ pc = "wrapup" => ~BatchHasData(LastRound)

C1_Witness ==
    /\ pc = "wrapup" /\ tasks # <<>>
    /\ LastRound >= 2
    /\ cap = "achievements"

\* C2: the requests of a fetch carry the consecutive page numbers start,
\* start+1, ... in submission order, max_workers per round, none twice, none
\* beyond the batch of the first all-empty round; a finished fetch of R rounds
\* requested exactly start .. start + max_workers*R - 1
C2_ConsecutivePages ==
    Fetching =>
        LET last == StartPage(cap) + max_workers * FirstEmptyRound - 1
        IN  /\ \A i \in DOMAIN tasks :
                  /\ tasks[i].page = StartPage(cap) + i - 1
                  /\ tasks[i].round = ((i - 1) \div max_workers) + 1
                  /\ tasks[i].page <= last
            /\ page = StartPage(cap) + Len(tasks)
            /\ pc \in {"while", "wrapup"} => Len(tasks) = max_workers * LastRound
            /\ pc = "wrapup" => tasks[Len(tasks)].page = last

\* content on pages 0-2, two workers: pages 0..5 were requested
C2_Witness ==
    /\ pc = "wrapup" /\ tasks # <<>>
    /\ max_workers = 2 /\ StartPage(cap) = 0
    /\ \A p \in 0..2 : PageHasData(p)
    /\ [i \in DOMAIN tasks |-> tasks[i].page] = <<0, 1, 2, 3, 4, 5>>

\* C3: at most max_workers requests are in flight, all of the same round, and
\* every request of an earlier round has completed and been processed
C3_OneRoundInFlight ==
    /\ Cardinality(InFlight) <= max_workers
    /\ \A i, j \in InFlight : tasks[i].round = tasks[j].round
    /\ \A i \in DOMAIN tasks : tasks[i].round < LastRound => tasks[i].st = "yielded"

C3_Witness ==
    /\ pc = "join"
    /\ LastRound >= 2
    /\ Cardinality(InFlight) = 2

(***************************************************************************)
(* Properties of the records returned.                                     *)
(***************************************************************************)
RECURSIVE ParsedInOrder(_)
\* the responses of the first n requests of the fetch, processed in the
\* order of their page numbers
ParsedInOrder(n) ==
    IF n = 0 THEN [has_content |-> FALSE, data |-> <<>>, pid_set |-> {}, err |-> "none"]
    ELSE LET prev == ParsedInOrder(n - 1)
         IN  IF prev.err # "none" THEN prev
             ELSE ParsePage(cap, Respond(cap, language, tasks[n].page), prev)

\* C4: the records of a finished fetch, sorted, are those that processing
\* the same responses in page order gives, whatever order they completed in
C4_OrderIndependent ==
    (pc = "wrapup" /\ tasks # <<>>) =>
        SortById(data) = SortById(ParsedInOrder(Len(tasks)).data)

\* the order of C5: score if present, else the record's own passed/full
\* ratio; then passed test cases; then runtime, smaller is better
ClaimedLess(a, b) ==
    LET ka == ScoreKey(a, a.test_case_passed, a.test_case_full)
        kb == ScoreKey(b, b.test_case_passed, b.test_case_full)
        l  == ka[1] * kb[2]
        r  == kb[1] * ka[2]
    IN  \/ l < r
        \/ l = r /\ a.test_case_passed < b.test_case_passed
        \/ l = r /\ a.test_case_passed = b.test_case_passed
                 /\ RuntimeKey(a) > RuntimeKey(b)

\* the data rows of the responses processed so far in the fetch
RowsSeen ==
    UNION {Range(Respond(cap, language, tasks[i].page).rows) :
              i \in {j \in DOMAIN tasks : tasks[j].st = "yielded"}}

\* C5: the record stats retains for an id is not exceeded, in the order of
\* C5, by any row seen for that id
C5_KeepsBest ==
    (pc = "wrapup" /\ cap \in StatsCaps) =>
        \A i \in DOMAIN data : \A r \in RowsSeen :
            (DataRow(r) /\ r.pid = data[i].id) =>
                ~ClaimedLess(data[i], SubmissionRecord(r))

\* number of records of a Result with this id
CountId(res, id) == Cardinality({i \in DOMAIN res : res[i].id = id})

Deduplicating == {"stats", "kattis_stats", "problems_low", "problems_v2"}

\* the distinct languages of the call that stats fetches
FetchedLanguages == {l \in Range(key.elems) : l = EmptyStr \/ InLanguages(l)}

C9_TransportNeverSurfaces ==
    /\ \A i \in DOMAIN tasks : tasks[i].st # "raised"
    /\ err.kind # "ConnectionError"

\* C10: in problems (both modes), achievements and stats no exception comes
\* from a response that lacks the container or the table: such a page only
\* contributes no row
C10_MissingTableIsNoRows ==
    (/\ pc \in {"raising", "raised"}
     /\ cap \in {"problems", "problems_low", "achievements", "stats"}
     /\ err.page >= 0 /\ err.kind # "ConnectionError") =>
        LET pg == PageAt(cap, err.page) IN pg.container /\ pg.table

\* C11: stats with several languages issues no request for a language the
\* database does not know and still fetches every known language of the call;
\* stats with a single language the database does not know returns no Result
C11_InvalidLanguage ==
    (stack # <<>> /\ cap = "stats" /\ key.kind # "none") =>
        /\ Fetching => \E l \in FetchedLanguages : language = GetLanguage(l)
        /\ (pc = "done" /\ key.kind = "tuple") =>
               issued >= max_workers * Cardinality(FetchedLanguages)
        /\ (key.kind = "str" /\ FetchedLanguages = {}) => pc # "done"

\* C19: stats sends the code of the language as the filter of every request
\* of its fetch (no filter for the empty string), and a call for one known
\* language returns only records whose language is its display name
C19_LanguageFilter ==
    (stack # <<>> /\ cap = "stats" /\ key.kind # "none") =>
        /\ Fetching =>
               \E l \in FetchedLanguages :
                   language = IF l = EmptyStr THEN NoLanguage ELSE Code(l.n)
        /\ (pc = "done" /\ key.kind = "str" /\ key.elems[1] # EmptyStr) =>
               \A i \in DOMAIN result : result[i].language = Name(key.elems[1].n)

C19_Witness ==
    /\ stack # <<>> /\ cap = "stats" /\ pc = "done"
    /\ key.kind = "str" /\ key.elems[1] = Name(2)
    /\ \E i \in DOMAIN result : result[i].id = 1
    /\ \E p \in DOMAIN server :
           \E j \in DOMAIN server[p].rows : server[p].rows[j].lang = Name(1)

(***************************************************************************)
(* Properties of problem.                                                  *)
(***************************************************************************)
\* C12: problem raises nothing; it issues no statistics or submissions request
\* for an id whose page is not ok; and its Result holds exactly one record
\* for each distinct requested id whose page is ok, none for any other id
C12_OnePerOkId ==
    (stack # <<>> /\ cap = "problem") =>
        /\ pc # "raised"
        /\ \A i \in DOMAIN requests :
               requests[i].kind \in {"statistics", "submissions"} =>
                   problem_pages[requests[i].arg].ok
        /\ pc = "done" =>
               \A id \in ProblemIds :
                   CountId(result, id) =
                       IF id \in Range(key.elems) /\ problem_pages[id].ok THEN 1 ELSE 0

\* C18: the records of a Result are in non-decreasing order of id (here: the
\* Result of problem)
C18_SortedById ==
    (stack # <<>> /\ cap = "problem" /\ pc = "done") =>
        \A i, j \in DOMAIN result : i < j => result[i].id <= result[j].id

(***************************************************************************)
(* Properties of login.                                                    *)
(***************************************************************************)
\* the links of the landing page of the shape /users/{name}
UserLinks ==
    {i \in DOMAIN homepage :
        Len(homepage[i]) >= 3 /\ homepage[i][1] = "" /\ homepage[i][2] = "users"}

LinkName(i) == homepage[i][3]

\* how often a name is a candidate, and where it is first
Freq(name) == Cardinality({i \in UserLinks : LinkName(i) = name})
FirstSeen(name) == CHOOSE i \in UserLinks :
    LinkName(i) = name /\ \A j \in UserLinks : LinkName(j) = name => i <= j

BeforeToken == {"login", "login_get"}
BeforePosted == BeforeToken \cup {"login_post", "login_posting"}

\* C13: the requests of login are, in this order, the token GET, the
\* credential POST and the landing-page GET, each at most once; a login whose
\* token count is not one stops with an error after the first, one whose POST
\* ends outside the origin of the site stops with an error after the second,
\* one without a username candidate stops with an error after the third; the
\* username is derived only after all three
C13_LoginOrder ==
    (stack = <<>> /\ pc \notin {"idle"}) =>
        /\ Len(requests) <= 3
        /\ \A i \in DOMAIN requests : requests[i].kind = <<"GET", "POST", "GET">>[i]
        /\ username # "none" => Len(requests) = 3
        /\ (Len(tokens) # 1 /\ pc \notin BeforeToken) =>
               pc = "raised" /\ Len(requests) = 1
        /\ (Len(tokens) = 1 /\ ~post_url.origin /\ pc \notin BeforePosted) =>
               pc = "raised" /\ Len(requests) = 2
        /\ (UserLinks = {} /\ pc \in {"done", "raised"} /\ Len(requests) = 3) =>
               pc = "raised" /\ username = "none"

\* C14: credentials are posted only when the login page held exactly one
\* token candidate, and with that token; with none or several candidates
\* login stops with an error; with exactly one it goes on to post
C14_SingleToken ==
    (stack = <<>> /\ pc \notin {"idle"}) =>
        /\ \A i \in DOMAIN requests :
               requests[i].kind = "POST" =>
                   Len(tokens) = 1 /\ requests[i].arg = tokens[1]
        /\ (Len(tokens) # 1 /\ pc \notin BeforeToken) =>
               pc = "raised" /\ err.kind = "AssertionError"
        /\ (Len(tokens) = 1 /\ pc \notin BeforeToken \cup {"login_post"}) =>
               \E i \in DOMAIN requests : requests[i].kind = "POST"

C14_Witness ==
    /\ stack = <<>> /\ pc = "raised"
    /\ Len(tokens) = 2
    /\ Len(requests) = 1

\* C15: the username login returns is a /users/{name} candidate of the landing
\* page that no candidate exceeds in frequency, and the first seen of those
\* that equal it; without a candidate login returns nothing and raises
C15_MostFrequentFirstSeen ==
    (stack = <<>> /\ pc \notin {"idle"}) =>
        /\ pc = "done" =>
               /\ \E i \in UserLinks : LinkName(i) = username
               /\ \A j \in UserLinks :
                      \/ Freq(LinkName(j)) < Freq(username)
                      \/ /\ Freq(LinkName(j)) = Freq(username)
                         /\ FirstSeen(username) <= FirstSeen(LinkName(j))
        /\ UserLinks = {} => pc # "done" /\ username = "none"
        /\ (UserLinks = {} /\ Len(requests) = 3 /\ pc # "login_names") =>
               pc = "raised" /\ err.kind = "AssertionError"

C15_Witness ==
    /\ stack = <<>> /\ pc = "done"
    /\ \E j \in UserLinks :
           /\ LinkName(j) # username
           /\ Freq(LinkName(j)) = Freq(username)
           /\ FirstSeen(username) < FirstSeen(LinkName(j))
    /\ \E i \in DOMAIN homepage : i \notin UserLinks

(***************************************************************************)
(* Properties of guess_id.                                                 *)
(***************************************************************************)
GuessCodes == {input.data[i].k : i \in DOMAIN input.data}
GuessNames == {input.data[i].v : i \in DOMAIN input.data}

\* the guess is the code, or the name, of every entry it is asked about
AgreesWithEntries ==
    \A i \in DOMAIN input.data :
        (input.guess \in {input.data[i].k, input.data[i].v}) =>
            output = Returned(input.data[i].k)

\* no two entries share a name, and no name is the code of another entry
UnambiguousMap ==
    \A i, j \in DOMAIN input.data :
        i # j => /\ input.data[i].v # input.data[j].v
                 /\ input.data[i].v # input.data[j].k

\* C16 as stated: for every entry (code, name) of the map, guess_id(code)
\* and guess_id(name) both return code
C16_CodeAndNameAgree ==
    (pc \in {"done", "raised"} /\ stack = <<>>) => AgreesWithEntries

\* C16 amended: for every entry (code, name) of a map whose names are
\* pairwise distinct and are not codes of other entries, guess_id(code) and
\* guess_id(name) both return code
C16_CodeAndNameAgreeUnambiguous ==
    (pc \in {"done", "raised"} /\ stack = <<>> /\ UnambiguousMap) =>
        AgreesWithEntries

C16_Witness ==
    /\ pc = "done" /\ stack = <<>>
    /\ UnambiguousMap
    /\ Len(input.data) = 2
    /\ input.guess \in GuessNames \ GuessCodes
    /\ output = Returned(input.data[2].k)

\* the candidates of the fuzzy search whose score no candidate exceeds
TopCandidates ==
    LET score(c) == <<input.ratio[c], input.partial_ratio[c]>>
        all == GuessCodes \cup GuessNames
    IN  {c \in all : \A c2 \in all : ~ScoreLess(score(c), score(c2))}

\* C17: guess_id returns a code of the map or fails with the resolution
\* error 'Invalid ID provided'; on the fuzzy path the value is the code of a
\* highest-scoring candidate among all codes and names; a non-empty map never
\* fails
C17_CodeOrResolutionError ==
    (pc \in {"done", "raised"} /\ stack = <<>>) =>
        /\ \/ output.kind = "value" /\ output.value \in GuessCodes
           \/ output.kind = "Exception: Invalid ID provided"
        /\ input.data # <<>> => output.kind = "value"
        /\ (input.data # <<>> /\ input.guess \notin GuessCodes \cup GuessNames) =>
               \E c \in TopCandidates :
                   \/ c \in GuessCodes /\ output.value = c
                   \/ \E i \in DOMAIN input.data :
                          input.data[i].v = c /\ output.value = input.data[i].k

\* C17 for the maps that have an entry
C17_NonEmptyMap == input.data # <<>> => C17_CodeOrResolutionError

(***************************************************************************)
(* Properties of the difficulty cell.                                      *)
(***************************************************************************)
\* the cell holds a range low-high
IsRange ==
    /\ Len(input.numeric) = 2
    /\ input.numeric[1].float /\ input.numeric[2].float
    /\ input.numeric[1].value <= input.numeric[2].value

\* what C20 says of the row whose record is made
DifficultyOrNone ==
    /\ input.numeric = <<>> => output.kind = "value" /\ output.difficulty = <<>>
    /\ input.alpha = <<>> => output.kind = "value" /\ output.category = "N/A"
    /\ IsRange => output.kind = "value"
                  /\ output.difficulty = <<input.numeric[2].value>>

\* C20: in full-detail problems, achievements, problem_authors and
\* problem_sources a difficulty cell without a numeric run gives difficulty
\* None and one without an alphabetic run gives category 'N/A', the record
\* being produced without an exception; a range gives its upper end
C20_DifficultyOrNone ==
    (pc \in {"done", "raised"} /\ stack = <<>>) => DifficultyOrNone

\* C20 for the three capabilities that convert inside a try
C20_Guarded ==
    (pc \in {"done", "raised"} /\ stack = <<>> /\ input.cap # "problems") =>
        DifficultyOrNone

\* C20 for the cells whose last numeric run is a number
C20_WithNumber ==
    (/\ pc \in {"done", "raised"} /\ stack = <<>>
     /\ input.numeric # <<>> /\ input.numeric[Len(input.numeric)].float) =>
        DifficultyOrNone

(***************************************************************************)
(* Properties of the rows of a table.                                      *)
(***************************************************************************)
\* a row without a populated cell, or without the anchor of its endpoint
IsPlaceholder(row) == ~row.text \/ ~row.anchor

\* the rows of the table that are no placeholders
RECURSIVE DataRows(_)
DataRows(rows) ==
    IF rows = <<>> THEN <<>>
    ELSE IF IsPlaceholder(Head(rows)) THEN DataRows(Tail(rows))
    ELSE <<ProblemRecord(Head(rows))>> \o DataRows(Tail(rows))

\* the placeholder rows give no record and no error, every other row its record
PlaceholdersSkipped ==
    /\ pc = "done"
    /\ output.data = DataRows(input.rows)

\* C21: a row without a populated cell or without the anchor link its
\* endpoint requires produces no record and no error, and every other row of
\* the table, before and after it, produces its record
C21_PlaceholderRowsSkipped ==
    (pc \in {"done", "raised"} /\ stack = <<>>) => PlaceholdersSkipped

\* C21 for achievements
C21_Achievements ==
    (pc \in {"done", "raised"} /\ stack = <<>> /\ input.cap = "achievements") =>
        PlaceholdersSkipped

\* C21 for the ranklists whose only placeholder rows are ellipsis rows at the
\* end of the table
C21_EllipsisLast ==
    (/\ pc \in {"done", "raised"} /\ stack = <<>>
     /\ input.cap # "achievements"
     /\ \A i \in DOMAIN input.rows :
           IsPlaceholder(input.rows[i]) =>
               /\ input.rows[i] = REllipsis
               /\ \A j \in i..Len(input.rows) : input.rows[j] = REllipsis) =>
        PlaceholdersSkipped

(***************************************************************************)
(* Properties of replace_double_dash.                                      *)
(***************************************************************************)
\* the cell is the double-dash placeholder
IsPlaceholderCell == Strip(input.text) = <<"-", "-">>

\* the cell is a number written with digits and, in a runtime, one point
IsOrdinaryNumber ==
    LET t == Strip(input.text)
        points == {i \in DOMAIN t : t[i] = "."}
    IN  /\ t # <<>>
        /\ \A i \in DOMAIN t : t[i] \in DigitChars \cup {"."}
        /\ \E i \in DOMAIN t : t[i] \in DigitChars
        /\ IF TypeOfNew(input.column) = "int" THEN points = {}
           ELSE Cardinality(points) <= 1

\* the number an ordinary cell is read as: its digits over the power of ten
\* given by the digits after the point
OrdinaryNumber ==
    LET t == Strip(input.text)
        digits == SelectSeq(t, LAMBDA c : c \in DigitChars)
        after == IF \E i \in DOMAIN t : t[i] = "."
                 THEN Len(t) - (CHOOSE i \in DOMAIN t : t[i] = ".")
                 ELSE 0
    IN  <<DigitsValue(digits), PowerOfTen(after)>>

ReadsStoredPageOnly ==
    /\ requests = <<>> /\ issued = 0 /\ tasks = <<>>
    /\ homepage = input.homepage

\* the table the capability reads is not in the page
ExpectedTableMissing ==
    \A i \in DOMAIN homepage : homepage[i].kind # input.cap

\* C23: suggest and ranklist send no request, leave the stored landing page
\* as it is, and return an empty Result when their table is missing from it
C23_StoredPageOnly ==
    (pc \in {"done", "raised"} /\ stack = <<>>) =>
        /\ ReadsStoredPageOnly
        /\ ExpectedTableMissing => pc = "done" /\ result = <<>>

\* C23 without the case of the missing table
C23_Frame ==
    (pc \in {"done", "raised"} /\ stack = <<>>) => ReadsStoredPageOnly

\* C23 for the pages that hold no table at the position the capability reads
C23_NoTableAtIndex ==
    (pc \in {"done", "raised"} /\ stack = <<>> /\ Len(homepage) < TableIndex(input.cap)) =>
        pc = "done" /\ result = <<>>

(***************************************************************************)
(* Completeness of the paged fetch.                                        *)
(***************************************************************************)
\* the page numbers at which the site holds a page
SitePageNumbers == StartPage(cap)..(StartPage(cap) + MaxContentPages - 1)

\* every page after the first page without data rows has none
MonotonicEmptiness ==
    \A p, q \in SitePageNumbers : (p < q /\ ~PageHasData(p)) => ~PageHasData(q)

\* the ids of the records page p gives when processed on its own
IdsOfPage(p) ==
    LET acc == ParsePage(cap, Respond(cap, language, p), NoRecords)
    IN  {acc.data[i].id : i \in DOMAIN acc.data}

\* page p was requested and its response processed
Processed(p) == \E i \in DOMAIN tasks : tasks[i].page = p /\ tasks[i].st = "yielded"

\* C25: at a site of monotonic emptiness, a paged fetch that is done has
\* requested and processed every page that holds data rows, and holds a
\* record for every id such a page gives, for every worker count
C25_NoPageSkipped ==
    (Fetching /\ pc = "wrapup" /\ MonotonicEmptiness) =>
        \A p \in SitePageNumbers :
            PageHasData(p) =>
                /\ Processed(p)
                /\ IdsOfPage(p) \subseteq {data[i].id : i \in DOMAIN data}

C25_Witness ==
    /\ Fetching /\ pc = "wrapup" /\ MonotonicEmptiness
    /\ max_workers = MaxWorkers
    /\ PageHasData(StartPage(cap) + MaxWorkers)
    /\ LastRound >= 3

\* C25 without the condition on the site
C25_AnySite ==
    (Fetching /\ pc = "wrapup") =>
        \A p \in SitePageNumbers : PageHasData(p) => Processed(p)

(***************************************************************************)
(* The seen-id set of low-detail problems.                                 *)
(***************************************************************************)
\* the rows the site holds
SiteRows == UNION {Range(server[p].rows) : p \in DOMAIN server}

\* what the fetch has accumulated
Accumulated ==
    [has_content |-> FALSE, data |-> data, pid_set |-> pid_set, err |-> "none"]

\* the row is read as a submission row whose problem link is there
ReadableRow(r) == r.ntd > CONTEST_PROBLEM_NAME /\ r.anchor

\* C26: throughout a low-detail problems fetch the ids of the accumulated
\* records are the seen-id set, each id once; a row whose id was seen adds no
\* record, changes no record and marks its round as having content
C26_SeenIds ==
    (stack # <<>> /\ cap = "problems_low") =>
        /\ {data[i].id : i \in DOMAIN data} = pid_set
        /\ \A i, j \in DOMAIN data : data[i].id = data[j].id => i = j
        /\ \A r \in SiteRows :
               (ReadableRow(r) /\ r.pid \in pid_set) =>
                   LET after == RowProblemsLow(r, Accumulated)
                   IN  /\ after.data = data
                       /\ after.pid_set = pid_set
                       /\ after.has_content
                       /\ after.err = "none"

C26_Witness ==
    /\ stack # <<>> /\ cap = "problems_low"
    /\ max_workers = 1
    /\ server[0] = Table(<<R1b, R1c>>) /\ server[1] = Table(<<R1b, R1c>>)
    /\ pc = "while" /\ has_content /\ tasks # <<>>
    /\ LastRound = 2
    /\ Len(data) = 1

(***************************************************************************)
(* Properties of the reducer of stats.                                     *)
(***************************************************************************)
\* the sequences that hold the elements of s in another order
Reorderings(s) ==
    {[i \in DOMAIN s |-> s[f[i]]] :
        f \in {g \in [DOMAIN s -> DOMAIN s] : \A a, b \in DOMAIN s : g[a] = g[b] => a = b}}

\* what the reducer retains of a sequence of rows
Retained(rows) == ParseRows("stats", rows, NoRecords).data

\* one record is held once a row went through
OneRecordHeld ==
    /\ Len(output.data) <= 1
    /\ Len(input.rest) < Len(input.rows) => Len(output.data) = 1

\* C27: the record retained of a sequence of submission rows of one problem
\* is the same for every permutation of the sequence, and at every step one
\* record is held for the problem
C27_PermutationInvariant ==
    pc \in {"stream", "done"} =>
        /\ OneRecordHeld
        /\ pc = "done" => \A q \in Reorderings(input.rows) : Retained(q) = output.data

\* C27 without the permutations
C27_OneRecordHeld == pc \in {"stream", "done"} => OneRecordHeld

(***************************************************************************)
(* Properties of the guess of the course.                                  *)
(***************************************************************************)
\* the courses whose offerings hold a name equal to offering_id
CoursesOffering ==
    {input.courses[i].id : i \in DOMAIN input.courses} \cap
    {c \in CourseIds : input.offering_id \in input.offerings[c]}

\* the assignments page of some course was requested
AssignmentsPageRequested ==
    \E i \in DOMAIN requests : Len(requests[i].arg) = 2

\* the first course offering it is used; without one the Result is empty,
\* nothing is raised and the offering page is not requested
FirstCourseOffering ==
    IF CoursesOffering = {}
    THEN pc = "done" /\ result = <<>> /\ ~AssignmentsPageRequested
    ELSE /\ pc = "done"
         /\ output.course_id \in CoursesOffering
         /\ \A c \in CoursesOffering : output.course_id <= c
         /\ AssignmentsPage(output.course_id, input.offering_id) \in Range(requests)

\* C28: assignments without course_id uses the first course, in ascending
\* course_id, whose offerings hold the name offering_id; when no course
\* holds it the call returns an empty Result, raises nothing and does not
\* request the offering page
C28_GuessedCourse ==
    (pc \in {"done", "raised"} /\ stack = <<>>) => FirstCourseOffering

\* C28 at a site with a course where every course has an offering
C28_EveryCourseOffers ==
    (/\ pc \in {"done", "raised"} /\ stack = <<>>
     /\ input.courses # <<>>
     /\ \A i \in DOMAIN input.courses : input.offerings[input.courses[i].id] # {}) =>
        FirstCourseOffering

(***************************************************************************)
(* Properties of the 'Assignments' section.                                *)
(***************************************************************************)
\* the positions of the assignment items
AssignmentsAt(items) == {i \in DOMAIN items : ~items[i].span}

\* the position of the assignment item that follows position i, or the end
NextAssignment(items, i) ==
    LET later == {j \in AssignmentsAt(items) : j > i} \cup {Len(items) + 1}
    IN  CHOOSE j \in later : \A k \in later : j <= k

\* the ids of the problem items between an assignment item and the next one
ProblemsBetween(items, i) ==
    [k \in 1..(NextAssignment(items, i) - i - 1) |-> items[i + k].id]

\* the i-th assignment item, in document order
NthAssignment(items, n) ==
    CHOOSE i \in AssignmentsAt(items) :
        Cardinality({j \in AssignmentsAt(items) : j <= i}) = n

\* ids p, q, r written "p,q,r"
CommaJoined(ids, text) ==
    /\ Len(text) = (IF ids = <<>> THEN 0 ELSE 2 * Len(ids) - 1)
    /\ \A k \in DOMAIN text :
          text[k] = (IF k % 2 = 1 THEN ids[(k + 1) \div 2] ELSE ",")

OneRecordPerAssignment(items, records) ==
    /\ Len(records) = Cardinality(AssignmentsAt(items))
    /\ \A n \in DOMAIN records :
          LET i == NthAssignment(items, n)
          IN  /\ records[n].id = items[i].id
              /\ CommaJoined(ProblemsBetween(items, i), records[n].problems)

C29_RaisedOnlyMalformed ==
    (pc = "raised") =>
        \/ \E i \in AssignmentsAt(input.items) : input.items[i].lines # 2
        \/ input.items[1].span

(***************************************************************************)
(* Properties of the Result a cached capability hands out.                 *)
(***************************************************************************)
\* the repeated call returned what the first call returned when it returned
RepeatedEqualsFirst == (pc = "repeated") => output.returned = output.first

\* the frame read was the records of the Result at that moment
FrameIsCurrent == output.frame.read => output.frame.got = output.frame.current

\* C30: a repeated call with the same arguments returns a Result equal to
\* the one the first call returned at the time it returned, even if the
\* caller mutated the first Result in between; and to_df of a Result
\* reflects the current records of the Result
C30_RepeatedCallAndFrame ==
    (pc \in {"held", "repeated"}) => (RepeatedEqualsFirst /\ FrameIsCurrent)

\* C30 for a caller that has not mutated the Result
C30_Unmutated ==
    (pc \in {"held", "repeated"} /\ output.mutations = 0) =>
        (RepeatedEqualsFirst /\ FrameIsCurrent)

\* the repeated call hands out the records the Result holds now
C30_SameObject ==
    (pc = "repeated") => output.returned = Current(input)

\* the frame is built from the argument of the constructor
C30_FrameOfArgument ==
    (pc \in {"held", "repeated"}) =>
        /\ Len(input.data) = Len(output.first)
        /\ output.frame.read => Len(output.frame.got) = Len(output.first)

(***************************************************************************)
(* Termination of the paged fetch.                                         *)
(***************************************************************************)
\* C24: the site holds data rows on finitely many pages and answers every
\* request in the end; a paged fetch that entered its loop leaves it and the
\* capability returns its Result
C24_EventuallyDone == (pc = "while") ~> (pc = "done")

\* a paged fetch that entered its loop leaves it, by return or by exception
C24_Terminates == (pc = "while") ~> (pc \in {"done", "raised"})

\* every page of the site holds its table and rows that parse
WellFormedSite ==
    \A p \in DOMAIN server :
        server[p] \in {EmptyPage, Table(<<RHead, R1, R2>>), Table(<<R1b, R1c>>)}

\* C24 at a site of well-formed pages, but for the request that is not retried
C24_WellFormedSite ==
    (pc = "while" /\ WellFormedSite) ~> (pc = "done" \/ err.kind = "ConnectionError")

(***************************************************************************)
(* Properties of the memoization.                                          *)
(***************************************************************************)
\* the caller's call in progress
Outer == stack[1]

\* C7: a call whose argument tuple was used by an earlier completed call of
\* the session submits no request and returns the Result of that call
C7_RepeatServedFromCache ==
    (stack # <<>>) =>
        \A h \in history :
            (h.cap = Outer.cap /\ h.key = Outer.key) =>
                /\ issued = 0
                /\ (pc = "ret" /\ Len(stack) = 1) => result = h.val

\* C8: a call whose collection argument holds the elements of the collection
\* of an earlier completed call submits no request
C8_SameElementsSameKey ==
    (stack # <<>>) =>
        \A h \in history :
            (/\ h.cap = Outer.cap
             /\ h.key.kind = "tuple" /\ Outer.key.kind = "tuple"
             /\ Range(h.key.elems) = Range(Outer.key.elems)) => issued = 0
====
